---- MODULE Spec2Model ----
(***************************************************************************)
(* CircleChat: the WebSocket transport channel (services/ws) and the       *)
(* voice/video call component (components/voicecall), as state machines.   *)
(***************************************************************************)
EXTENDS Integers, Sequences, FiniteSets, TLC

VARIABLES
  socks,             \* every WebSocket constructed so far: [rs, room]
  ws,                \* this.ws: index into socks, 0 for null
  isConnecting,      \* this.isConnecting
  reconnectAttempts, \* this.reconnectAttempts
  listeners,         \* this.listeners: event name -> sequence of callbacks
  getToken,          \* this.getToken is set
  pend,              \* connect() calls suspended at `await this.getToken()`, per room
  timers,            \* pending reconnect timers, a sequence of [room, delay]
  last,              \* what the most recent handler did: [op, arg, ok, fx]
  hist,              \* history of the run: calls made and events seen so far
  cap,               \* how many sockets, peer connections and suspended handlers
                     \* the run may hold, how far it counts the offers and
                     \* answers sent, and whether hist follows the connection:
                     \* [socks, pcs, tasks, sent, trace] (fixed by Init)
  comp,              \* the VoiceCall component: its React state and refs
  streams,           \* every local MediaStream acquired: [audio, video, stopped]
  mediaReqs,         \* getUserMedia calls not yet settled
  pcs,               \* every RTCPeerConnection constructed:
                     \*   [user, sig, conn, remote]
  peersRef,          \* peersRef.current: participant -> index into pcs, 0 if absent
  tasks,             \* handlers suspended at an await: [h, user, pc, step]
  offerTimers,       \* pending setTimeout(() => createOfferForUser(p)), per participant
  remoteStreams,     \* remoteStreams: sequence of participants with a stream record
  participants,      \* participants: participant -> "none", "unmuted", "muted"
  sent,              \* offers and answers transmitted so far, per kind and target
  chat,              \* the ChatRoom component: [incomingCall, route]
  pair               \* two participants negotiating with each other, each running
                     \* the VoiceCall component: participant ->
                     \*   [told, timer, entry, pc, remote, tasks, inbox]

callvars == <<comp, streams, mediaReqs, pcs, peersRef, tasks, offerTimers, remoteStreams,
              participants, sent>>
wsvars == <<socks, ws, isConnecting, reconnectAttempts, listeners, getToken, pend, timers>>
vars == <<socks, ws, isConnecting, reconnectAttempts, listeners, getToken, pend, timers,
          last, hist, cap, chat, pair, comp, streams, mediaReqs, pcs, peersRef, tasks, offerTimers,
          remoteStreams, participants, sent, pair>>

----------------------------------------------------------------------------
(* Bounds of the model *)

MaxSockets == 3
MaxDispatchSockets == 2
MaxListeners == 2
MaxCallSockets == 1
MaxStreams == 2
MaxPCs == 1
MaxTasks == 2
MaxOfferTimers == 1
MaxListLen == 3

(* Program constants *)

maxReconnectAttempts == 5
reconnectDelay == 1000

\* The room of the component on screen, and the rooms the user can move to.
groupId == "g1"
Rooms == {groupId, "g2"}
Callbacks == {"cbA", "cbThrow"}
ListenEvents == {"message", "webrtc_offer"}
FrameTypes == {"", "message", "webrtc_offer", "connected"}
Unparsable == "<unparsable>"
Frames == FrameTypes \cup {Unparsable}
SignalingEvents == {"webrtc_offer", "webrtc_answer", "webrtc_ice_candidate",
                    "user_joined", "call_participant_ready", "call_participants_list"}
MuteStatus == "participant_mute_status"
EventNames == {"message", "connected", "disconnected", "error", "reconnect_failed"}
                \cup SignalingEvents \cup {MuteStatus}

Self == "u1"
Peers == {"u2", "u3", "u4", "u5"}
Users == {Self} \cup Peers
CallPeers == {"u2"}
SentKinds == {"webrtc_offer", "webrtc_answer"}
OutMessages == {"message"}

----------------------------------------------------------------------------
(* Helpers *)

Fx(k, ev, cb, n) == [k |-> k, ev |-> ev, cb |-> cb, n |-> n]

Step(op, arg, ok, fx) == [op |-> op, arg |-> arg, ok |-> ok, fx |-> fx]

\* Counting up to "more than one": 0, 1, 2 (two or more).
Sat(n) == IF n = 0 THEN 1 ELSE 2

\* The history of connection events is kept where cap.trace asks for it.
Traced(h) == IF cap.trace THEN h ELSE hist

ReadyState(s) == socks[s].rs

PendCount == LET RECURSIVE Sum(_)
                 Sum(S) == IF S = {} THEN 0
                           ELSE LET g == CHOOSE x \in S : TRUE
                                IN pend[g] + Sum(S \ {g})
             IN Sum(Rooms)

Range(seq) == {seq[i] : i \in 1..Len(seq)}

RemoveAt(seq, i) == SubSeq(seq, 1, i - 1) \o SubSeq(seq, i + 1, Len(seq))

IndexOf(seq, x) == IF \E i \in 1..Len(seq) : seq[i] = x
                   THEN CHOOSE i \in 1..Len(seq) :
                          seq[i] = x /\ \A j \in 1..(i - 1) : seq[j] # x
                   ELSE 0

ListenerCount == LET RECURSIVE Sum(_)
                     Sum(S) == IF S = {} THEN 0
                               ELSE LET e == CHOOSE x \in S : TRUE
                                    IN Len(listeners[e]) + Sum(S \ {e})
                 IN Sum(EventNames)

----------------------------------------------------------------------------
(* emit(event, data): every callback of the event, in array order; a       *)
(* callback's exception is caught and logged (try/catch inside forEach).   *)

CallbackThrows(cb) == cb = "cbThrow"

ListenerErrorPropagates == FALSE

ListenerErrorCaught == TRUE

RECURSIVE ForEachCallback(_, _, _)
ForEachCallback(ev, cbs, i) ==
  IF i > Len(cbs) THEN <<>>
  ELSE <<Fx("call", ev, cbs[i], i)>> \o
       (IF CallbackThrows(cbs[i]) /\ ~ListenerErrorCaught
        THEN <<>>
        ELSE ForEachCallback(ev, cbs, i + 1))

emit(ev) == <<Fx("emit", ev, "", 0)>> \o ForEachCallback(ev, listeners[ev], 1)

----------------------------------------------------------------------------
(* connect(groupId) *)

ConnectGuardNoFlag == ws # 0 /\ ReadyState(ws) = "OPEN"

ConnectGuard == isConnecting \/ (ws # 0 /\ ReadyState(ws) = "OPEN")

CanCreate == Len(socks) + PendCount < cap.socks

NewSocket(g) ==
  /\ socks' = Append(socks, [rs |-> "CONNECTING", room |-> g])
  /\ ws' = Len(socks) + 1

\* The body of connect(groupId) up to its first suspension point; tok tells
\* whether a token provider is installed.
connectWith(g, tok) ==
  IF ConnectGuard
  THEN UNCHANGED <<socks, ws, isConnecting, pend>>
  ELSE /\ isConnecting' = TRUE
       /\ IF tok
          THEN /\ pend' = [pend EXCEPT ![g] = @ + 1]
               /\ UNCHANGED <<socks, ws>>
          ELSE /\ NewSocket(g)
               /\ UNCHANGED pend

connect(g) == connectWith(g, getToken)

connectFx(g) ==
  IF ConnectGuard \/ getToken THEN <<>> ELSE <<Fx("new", g, "", Len(socks) + 1)>>

SetGetToken ==
  /\ ~getToken
  /\ getToken' = TRUE
  /\ last' = Step("setGetToken", "", TRUE, <<>>)
  /\ UNCHANGED <<socks, ws, isConnecting, reconnectAttempts, listeners, pend, timers, hist, cap, chat, pair, callvars>>

Connect(g) ==
  /\ ConnectGuard \/ CanCreate
  /\ connect(g)
  /\ last' = Step("connect", g, ~ConnectGuard, connectFx(g))
  /\ hist' = Traced([hist EXCEPT !.connects = IF hist.resets THEN 1 ELSE Sat(@)])
  /\ UNCHANGED <<reconnectAttempts, listeners, getToken, timers, cap, chat, pair, callvars>>

\* `await this.getToken()` resolves: the socket is constructed and wired.
TokenResolve(g) ==
  /\ pend[g] > 0
  /\ pend' = [pend EXCEPT ![g] = @ - 1]
  /\ NewSocket(g)
  /\ last' = Step("token", g, TRUE, <<Fx("new", g, "", Len(socks) + 1)>>)
  /\ UNCHANGED <<isConnecting, reconnectAttempts, listeners, getToken, timers, hist, cap, chat, pair, callvars>>

\* `await this.getToken()` rejects: the catch block clears the flag.
\* TokenRejectFlagKept is the handler without `this.isConnecting = false`.
TokenRejectFlagKept(g) ==
  /\ pend[g] > 0
  /\ pend' = [pend EXCEPT ![g] = @ - 1]
  /\ last' = Step("token", g, FALSE, <<>>)
  /\ UNCHANGED <<socks, ws, isConnecting, reconnectAttempts, listeners, getToken, timers,
                 hist, cap, chat, pair, callvars>>

TokenReject(g) ==
  /\ pend[g] > 0
  /\ pend' = [pend EXCEPT ![g] = @ - 1]
  /\ isConnecting' = FALSE
  /\ last' = Step("token", g, FALSE, <<>>)
  /\ UNCHANGED <<socks, ws, reconnectAttempts, listeners, getToken, timers, hist, cap, chat, pair, callvars>>

----------------------------------------------------------------------------
(* Socket events *)

\* ws.onopen: this.reconnectAttempts = 0
ResetAttemptsKept == reconnectAttempts

ResetAttempts == 0

\* ws.onopen
SockOpen(s) ==
  /\ ReadyState(s) = "CONNECTING"
  /\ socks' = [socks EXCEPT ![s].rs = "OPEN"]
  /\ isConnecting' = FALSE
  /\ reconnectAttempts' = ResetAttempts
  /\ last' = Step("onopen", socks[s].room, TRUE, emit("connected"))
  /\ hist' = Traced([hist EXCEPT !.opens = TRUE])
  /\ UNCHANGED <<ws, listeners, getToken, pend, timers, cap, chat, pair, callvars>>

\* attemptReconnect(groupId)
ReconnectAllowedOffByOne == reconnectAttempts + 1 < maxReconnectAttempts

ReconnectAllowed == reconnectAttempts < maxReconnectAttempts

\* this.reconnectDelay * this.reconnectAttempts, after the increment to k
BackoffDelayConstant(k) == reconnectDelay

BackoffDelay(k) == reconnectDelay * k

attemptReconnect(g) ==
  IF ReconnectAllowed
  THEN /\ reconnectAttempts' = reconnectAttempts + 1
       /\ timers' = Append(timers, [room |-> g,
                                    delay |-> BackoffDelay(reconnectAttempts + 1)])
  ELSE UNCHANGED <<reconnectAttempts, timers>>

attemptReconnectFx(g) ==
  IF ReconnectAllowed
  THEN <<Fx("timer", g, "", BackoffDelay(reconnectAttempts + 1))>>
  ELSE emit("reconnect_failed")

\* ws.onclose (after ws.onerror when the connection failed). The handler does
\* not reach into the call; OnCloseEndsCall is what it would do if it emptied
\* the registry and the remote stream list.
OnCloseEndsCall(s, failed) ==
  /\ socks' = [socks EXCEPT ![s].rs = "CLOSED"]
  /\ isConnecting' = FALSE
  /\ attemptReconnect(socks[s].room)
  /\ last' = Step("onclose", socks[s].room, ~failed, <<>>)
  /\ peersRef' = [p \in Peers |-> 0]
  /\ remoteStreams' = <<>>
  /\ UNCHANGED <<ws, listeners, getToken, pend, hist, cap, chat, pair, comp, streams,
                 mediaReqs, pcs, tasks, offerTimers, participants, sent>>

OnClose(s, failed) ==
  /\ socks' = [socks EXCEPT ![s].rs = "CLOSED"]
  /\ isConnecting' = FALSE
  /\ attemptReconnect(socks[s].room)
  /\ last' = Step("onclose", socks[s].room, ~failed,
                  (IF failed THEN emit("error") ELSE <<>>)
                  \o emit("disconnected") \o attemptReconnectFx(socks[s].room))
  /\ hist' = Traced([hist EXCEPT !.failed = IF ReconnectAllowed THEN @ ELSE Sat(@)])
  /\ UNCHANGED <<ws, listeners, getToken, pend, cap, chat, pair, callvars>>

\* The connection fails: error event, then close event, in one task.
SockFail(s) ==
  /\ ReadyState(s) \in {"CONNECTING", "OPEN", "CLOSING"}
  /\ OnClose(s, TRUE)

\* The connection closes cleanly: close event only.
SockClose(s) ==
  /\ ReadyState(s) \in {"OPEN", "CLOSING"}
  /\ OnClose(s, FALSE)

\* The reconnect timer of attemptReconnect fires: this.connect(groupId).
TimerFire(i) ==
  /\ i \in 1..Len(timers)
  /\ ConnectGuard \/ CanCreate
  /\ timers' = RemoveAt(timers, i)
  /\ connect(timers[i].room)
  /\ last' = Step("timer", timers[i].room, ~ConnectGuard, connectFx(timers[i].room))
  /\ UNCHANGED <<reconnectAttempts, listeners, getToken, hist, cap, chat, pair, callvars>>

\* ws.onmessage: a frame arrives on an open socket.
\* A frame is its type discriminator ("" when it carries none), or Unparsable
\* when JSON.parse throws.
OnMessageFxTypedOnly(f) ==
  IF f = Unparsable THEN <<>>
  ELSE IF f # "" THEN emit(f) ELSE emit("message")

OnMessageFx(f) ==
  IF f = Unparsable THEN <<>>
  ELSE emit("message") \o (IF f # "" THEN emit(f) ELSE <<>>)

\* SockMessageUnparsed: the handler if it emitted `message` before parsing.
SockMessageUnparsed(s, f) ==
  /\ ReadyState(s) = "OPEN"
  /\ last' = Step("onmessage", f, f # Unparsable,
                  emit("message") \o (IF f \notin {"", Unparsable} THEN emit(f) ELSE <<>>))
  /\ UNCHANGED <<wsvars, hist, cap, chat, pair, callvars>>

SockMessage(s, f) ==
  /\ ReadyState(s) = "OPEN"
  /\ last' = Step("onmessage", f, f # Unparsable, OnMessageFx(f))
  /\ UNCHANGED <<wsvars, hist, cap, chat, pair, callvars>>

----------------------------------------------------------------------------
(* send, on, off, disconnect *)

SendAllowedAlways == ws # 0

SendAllowed == ws # 0 /\ ReadyState(ws) = "OPEN"

Send(m) ==
  /\ last' = Step("send", m, SendAllowed,
                  IF SendAllowed THEN <<Fx("tx", m, "", ws)>> ELSE <<>>)
  /\ UNCHANGED <<wsvars, hist, cap, chat, pair, callvars>>

Registered(cbs, cb) == Append(cbs, cb)

On(ev, cb) ==
  /\ ListenerCount < MaxListeners
  /\ listeners' = [listeners EXCEPT ![ev] = Registered(@, cb)]
  /\ last' = Step("on", ev, TRUE, <<Fx("reg", ev, cb, Len(listeners[ev]) + 1)>>)
  /\ UNCHANGED <<socks, ws, isConnecting, reconnectAttempts, getToken, pend, timers, hist, cap, chat, pair, callvars>>

\* off: `if (index > -1) callbacks.splice(index, 1)`, index being 0 here
\* when the callback is not in the list. Without the test, splice(-1, 1)
\* would remove the last callback.
SplicedUnguarded(cbs, index) ==
  IF index > 0 THEN RemoveAt(cbs, index) ELSE SubSeq(cbs, 1, Len(cbs) - 1)

Spliced(cbs, index) == IF index > 0 THEN RemoveAt(cbs, index) ELSE cbs

Off(ev, cb) ==
  /\ listeners' = [listeners EXCEPT ![ev] = Spliced(@, IndexOf(@, cb))]
  /\ last' = Step("off", ev, IndexOf(listeners[ev], cb) > 0, <<>>)
  /\ UNCHANGED <<socks, ws, isConnecting, reconnectAttempts, getToken, pend, timers, hist, cap, chat, pair, callvars>>

Disconnect ==
  /\ IF ws # 0
     THEN /\ socks' = [socks EXCEPT ![ws].rs =
                         IF @ \in {"CONNECTING", "OPEN"} THEN "CLOSING" ELSE @]
          /\ ws' = 0
     ELSE UNCHANGED <<socks, ws>>
  /\ listeners' = [e \in EventNames |-> <<>>]
  /\ reconnectAttempts' = 0
  /\ last' = Step("disconnect", "", ws # 0, <<>>)
  /\ hist' = Traced([hist EXCEPT !.resets = TRUE, !.connects = 0])
  /\ UNCHANGED <<isConnecting, getToken, pend, timers, cap, chat, pair, callvars>>

\* incomingCall of the chat room when it is null.
NoCall == [caller_id |-> "", call_type |-> ""]

\* The chat room is not on screen.
Away == [incomingCall |-> NoCall, route |-> [page |-> "", type |-> ""]]

----------------------------------------------------------------------------
(* The transport channel on its own *)

\* The service object as its constructor leaves it.
Constructed ==
  /\ socks = <<>>
  /\ ws = 0
  /\ isConnecting = FALSE
  /\ reconnectAttempts = 0
  /\ listeners = [e \in EventNames |-> <<>>]
  /\ pend = [g \in Rooms |-> 0]
  /\ timers = <<>>
  /\ last = Step("init", "", TRUE, <<>>)
  /\ hist = [connects |-> 0, opens |-> FALSE, resets |-> FALSE, failed |-> 0,
             lists |-> 0, list |-> <<>>,
             started |-> FALSE, ready |-> FALSE]

\* Two participants of a call, each running the VoiceCall component, as far as
\* their negotiation with each other goes; Strangers: neither has heard of the
\* other.
PairUsers == {Self, "u2"}

Other(X) == CHOOSE Y \in PairUsers : Y # X

Strangers ==
  [X \in PairUsers |->
     [told |-> FALSE, timer |-> FALSE, entry |-> FALSE, pc |-> "none",
      remote |-> "", tasks |-> <<>>, inbox |-> <<>>]]

\* The call component before it is mounted.
Unmounted ==
  /\ comp = [mounted |-> "no", isVideo |-> FALSE, isMuted |-> FALSE,
             isVideoOff |-> FALSE, permissionStatus |-> "requesting",
             permissionError |-> "", error |-> FALSE, localStream |-> 0,
             localStreamRef |-> 0, watching |-> FALSE, initializeCall |-> "idle"]
  /\ streams = <<>>
  /\ mediaReqs = 0
  /\ pcs = <<>>
  /\ peersRef = [p \in Peers |-> 0]
  /\ tasks = <<>>
  /\ offerTimers = [p \in Peers |-> 0]
  /\ remoteStreams = <<>>
  /\ participants = [p \in Users |-> "none"]
  /\ sent = [k \in SentKinds, p \in Peers |-> 0]

Init ==
  /\ Constructed
  /\ Unmounted
  /\ chat = Away
  /\ getToken = FALSE
  /\ pair = Strangers
  /\ cap = [socks |-> MaxSockets, pcs |-> 0, tasks |-> 0, sent |-> 0, trace |-> TRUE]

Next ==
  \/ SetGetToken
  \/ \E g \in {groupId} : Connect(g)
  \/ \E g \in {groupId} : TokenResolve(g)
  \/ \E g \in {groupId} : TokenReject(g)
  \/ \E s \in 1..Len(socks) : SockOpen(s)
  \/ \E s \in 1..Len(socks) : SockFail(s)
  \/ \E s \in 1..Len(socks) : SockClose(s)
  \/ \E i \in 1..Len(timers) : TimerFire(i)
  \/ Disconnect

Spec == Init /\ [][Next]_vars

----------------------------------------------------------------------------
(* The transport channel during an outage: every connection attempt fails. *)
(* Room for two full reconnect sequences.                                  *)

InitOutage ==
  /\ Constructed
  /\ Unmounted
  /\ chat = Away
  /\ getToken = FALSE
  /\ pair = Strangers
  /\ cap = [socks |-> maxReconnectAttempts + 2, pcs |-> 0, tasks |-> 0, sent |-> 0,
            trace |-> TRUE]

NextOutage ==
  \/ SetGetToken
  \/ \E g \in {groupId} : Connect(g)
  \/ \E g \in {groupId} : TokenResolve(g)
  \/ \E g \in {groupId} : TokenReject(g)
  \/ \E s \in 1..Len(socks) : SockFail(s)
  \/ \E i \in 1..Len(timers) : TimerFire(i)

SpecOutage == InitOutage /\ [][NextOutage]_vars

----------------------------------------------------------------------------
(* The transport channel with its listeners and inbound frames, once the   *)
(* components have installed the token provider.                           *)

InitDispatch ==
  /\ Constructed
  /\ Unmounted
  /\ chat = Away
  /\ getToken = TRUE
  /\ pair = Strangers
  /\ cap = [socks |-> MaxDispatchSockets, pcs |-> 0, tasks |-> 0, sent |-> 0,
            trace |-> FALSE]

NextDispatch ==
  \/ \E g \in {groupId} : Connect(g)
  \/ \E g \in {groupId} : TokenResolve(g)
  \/ \E s \in 1..Len(socks) : SockOpen(s)
  \/ \E s \in 1..Len(socks) : SockFail(s)
  \/ \E s \in 1..Len(socks) : SockClose(s)
  \/ \E i \in 1..Len(timers) : TimerFire(i)
  \/ \E s \in 1..Len(socks), f \in Frames : SockMessage(s, f)
  \/ \E m \in OutMessages : Send(m)
  \/ \E ev \in ListenEvents, cb \in Callbacks : On(ev, cb)
  \/ \E ev \in ListenEvents, cb \in Callbacks : Off(ev, cb)
  \/ Disconnect

SpecDispatch == InitDispatch /\ [][NextDispatch]_vars

----------------------------------------------------------------------------
(* The VoiceCall component: mounting, local media, toggles, teardown *)

Handler == "handleWebRTCMessage"

B(b) == IF b THEN "on" ELSE "off"

\* wsService.send({type, ..., group_id: groupId}) from the component:
\* transmitted, on the current socket, only when that socket is open.
TxFx(type, target) ==
  IF SendAllowed THEN <<Fx("tx", type, target, ws)>> ELSE <<>>

ErrorClasses == {"permission-denied", "device-not-found", "device-in-use",
                 "constraint-error", "unknown"}

\* err.name of a getUserMedia rejection: the names the catch block tests
\* for, and one it does not.
ErrorNames == {"NotAllowedError", "PermissionDeniedError", "NotFoundError",
               "DevicesNotFoundError", "NotReadableError", "TrackStartError",
               "OverconstrainedError", "ConstraintNotSatisfiedError", "AbortError"}

\* The if/else chain on err.name in the catch block of requestMediaAccess.
ClassOfStandardNames(name) ==
  CASE name = "NotAllowedError" -> "permission-denied"
    [] name = "NotFoundError" -> "device-not-found"
    [] name = "NotReadableError" -> "device-in-use"
    [] name = "OverconstrainedError" -> "constraint-error"
    [] OTHER -> "unknown"

ClassOf(name) ==
  CASE name \in {"NotAllowedError", "PermissionDeniedError"} -> "permission-denied"
    [] name \in {"NotFoundError", "DevicesNotFoundError"} -> "device-not-found"
    [] name \in {"NotReadableError", "TrackStartError"} -> "device-in-use"
    [] name \in {"OverconstrainedError", "ConstraintNotSatisfiedError"} -> "constraint-error"
    [] OTHER -> "unknown"

CanRequestMedia == Len(streams) + mediaReqs < MaxStreams

\* requestMediaAccess() up to `await getUserMedia(constraints)`.
requestMediaAccess(c) ==
  [c EXCEPT !.permissionStatus = "requesting", !.error = FALSE, !.permissionError = ""]

\* wsService.on(...) of the six signaling events.
Subscribed(ls) ==
  [e \in EventNames |->
     IF e \in SignalingEvents THEN Registered(ls[e], Handler) ELSE ls[e]]

\* wsService.off(...) of the six signaling events.
Unsubscribed(ls) ==
  [e \in EventNames |->
     IF e \in SignalingEvents /\ IndexOf(ls[e], Handler) > 0
     THEN RemoveAt(ls[e], IndexOf(ls[e], Handler))
     ELSE ls[e]]

\* The component mounts: its effects run setGetToken, initializeCall (up to
\* `await wsService.connect`), checkPermissionsAndInitialize, and subscribe the
\* signaling handler. perm is what the browser reports: no media API
\* ("unsupported"), a denied permission ("denied"), or neither ("prompt").
Mount(video, perm) ==
  /\ comp.mounted = "no"
  /\ ConnectGuard \/ CanCreate
  /\ perm = "prompt" => CanRequestMedia
  /\ getToken' = TRUE
  /\ connectWith(groupId, TRUE)
  /\ listeners' = Subscribed(listeners)
  /\ comp' = LET c == [comp EXCEPT !.mounted = "yes", !.isVideo = video,
                                   !.initializeCall = "connect"]
             IN CASE perm = "unsupported" ->
                       [c EXCEPT !.error = TRUE, !.permissionStatus = "error"]
                  [] perm = "denied" ->
                       [c EXCEPT !.watching = TRUE, !.error = TRUE,
                                 !.permissionStatus = "denied"]
                  [] OTHER -> [requestMediaAccess(c) EXCEPT !.watching = TRUE]
  /\ mediaReqs' = IF perm = "prompt" THEN mediaReqs + 1 ELSE mediaReqs
  /\ hist' = Traced([hist EXCEPT !.connects = IF hist.resets THEN 1 ELSE Sat(@)])
  /\ last' = Step("mount", perm, ~ConnectGuard, <<>>)
  /\ UNCHANGED <<reconnectAttempts, timers, cap, chat, pair, streams, pcs, peersRef, tasks,
                 offerTimers, remoteStreams, participants, sent>>

\* initializeCall after `await wsService.connect(groupId)`: the call-start
\* notification, then the one-second timer is set.
InitAfterConnect ==
  /\ comp.initializeCall = "connect"
  /\ pend[groupId] = 0
  /\ comp' = [comp EXCEPT !.initializeCall = "timer"]
  /\ last' = Step("startCall", "", SendAllowed, TxFx("call_start", ""))
  /\ hist' = [hist EXCEPT !.started = @ \/ SendAllowed]
  /\ UNCHANGED <<wsvars, cap, chat, pair, streams, mediaReqs, pcs, peersRef, tasks,
                 offerTimers, remoteStreams, participants, sent>>

\* The one-second timer of initializeCall fires.
InitTimerFire ==
  /\ comp.initializeCall = "timer"
  /\ comp' = [comp EXCEPT !.initializeCall = "done"]
  /\ last' = Step("readyTimer", "", comp.localStreamRef # 0,
                  IF comp.localStreamRef # 0
                  THEN TxFx("call_participant_ready", "") ELSE <<>>)
  /\ hist' = [hist EXCEPT !.ready = @ \/ (comp.localStreamRef # 0 /\ SendAllowed)]
  /\ UNCHANGED <<wsvars, cap, chat, pair, streams, mediaReqs, pcs, peersRef, tasks,
                 offerTimers, remoteStreams, participants, sent>>

\* getUserMedia resolves: requestMediaAccess after the await. When the
\* previous step was the retry, the step records what that one recorded.
MediaGranted ==
  /\ mediaReqs > 0
  /\ mediaReqs' = mediaReqs - 1
  /\ streams' = Append(streams, [audio |-> TRUE,
                                 video |-> IF comp.isVideo THEN "on" ELSE "none",
                                 stopped |-> FALSE])
  /\ comp' = [comp EXCEPT !.localStream = Len(streams) + 1,
                          !.localStreamRef = Len(streams) + 1,
                          !.permissionStatus = "granted", !.error = FALSE]
  /\ participants' = [participants EXCEPT ![Self] = "unmuted"]
  /\ last' = Step("mediaGranted",
                  IF last.op = "retryPermissions" THEN last.arg ELSE "",
                  TRUE, TxFx("call_participant_ready", ""))
  /\ hist' = [hist EXCEPT !.ready = @ \/ SendAllowed]
  /\ UNCHANGED <<wsvars, cap, chat, pair, pcs, peersRef, tasks, offerTimers, remoteStreams,
                 sent>>

\* getUserMedia rejects: the catch block of requestMediaAccess.
MediaFailed(name) ==
  /\ mediaReqs > 0
  /\ mediaReqs' = mediaReqs - 1
  /\ comp' = [comp EXCEPT !.permissionStatus = "denied",
                          !.permissionError = ClassOf(name), !.error = TRUE]
  /\ last' = Step("mediaFailed", name, FALSE, <<>>)
  /\ UNCHANGED <<wsvars, hist, cap, chat, pair, streams, pcs, peersRef, tasks, offerTimers,
                 remoteStreams, participants, sent>>

\* audioPermission.onchange / videoPermission.onchange with state granted.
PermissionChange ==
  /\ comp.watching
  /\ CanRequestMedia
  /\ comp' = requestMediaAccess(comp)
  /\ mediaReqs' = mediaReqs + 1
  /\ last' = Step("permissionChange", "", TRUE, <<>>)
  /\ UNCHANGED <<wsvars, hist, cap, chat, pair, streams, pcs, peersRef, tasks, offerTimers,
                 remoteStreams, participants, sent>>

\* handleRetryPermissions: the retry button of the error view. The step
\* records the error class the retry starts from.
RetryPermissions ==
  /\ comp.mounted = "yes" /\ comp.error /\ comp.permissionStatus = "denied"
  /\ CanRequestMedia
  /\ comp' = requestMediaAccess(comp)
  /\ mediaReqs' = mediaReqs + 1
  /\ last' = Step("retryPermissions", comp.permissionError, TRUE, <<>>)
  /\ UNCHANGED <<wsvars, hist, cap, chat, pair, streams, pcs, peersRef, tasks, offerTimers,
                 remoteStreams, participants, sent>>

\* toggleMute: track.enabled = newMutedState
MuteTrackEnabled(newMutedState) == newMutedState

\* toggleMute: the mute-status broadcast.
MuteBroadcastAsOffer(newMutedState) == TxFx("webrtc_offer", B(newMutedState))

MuteBroadcast(newMutedState) == TxFx(MuteStatus, B(newMutedState))

\* toggleMute. The step records the audio flag before and after, whether the
\* channel was open, and, when the previous step was a toggleMute too, what
\* that one recorded (the "pair" effect).
ToggleMute ==
  /\ comp.mounted = "yes"
  /\ IF comp.localStream # 0
     THEN LET newMutedState == ~comp.isMuted
              before == streams[comp.localStream].audio
              after == MuteTrackEnabled(newMutedState)
              tx == MuteBroadcast(newMutedState)
              twice == last.op = "toggleMute" /\ last.ok
          IN /\ streams' = [streams EXCEPT ![comp.localStream].audio = after]
             /\ comp' = [comp EXCEPT !.isMuted = newMutedState]
             /\ last' = Step("toggleMute", B(SendAllowed), TRUE,
                          <<Fx("audio", B(before), B(after), Len(tx)),
                            IF twice
                            THEN Fx("pair", last.fx[1].ev, last.arg, last.fx[1].n)
                            ELSE Fx("pair", "", "", 0)>> \o tx)
     ELSE /\ UNCHANGED <<streams, comp>>
          /\ last' = Step("toggleMute", B(SendAllowed), FALSE, <<>>)
  /\ UNCHANGED <<wsvars, hist, cap, chat, pair, mediaReqs, pcs, peersRef, tasks, offerTimers,
                 remoteStreams, participants, sent>>

ToggleVideo ==
  /\ comp.mounted = "yes"
  /\ IF comp.localStream # 0
     THEN /\ streams' = [streams EXCEPT ![comp.localStream].video =
                           IF @ = "none" THEN @ ELSE B(comp.isVideoOff)]
          /\ comp' = [comp EXCEPT !.isVideoOff = ~comp.isVideoOff]
     ELSE UNCHANGED <<streams, comp>>
  /\ last' = Step("toggleVideo", "", comp.localStream # 0, <<>>)
  /\ UNCHANGED <<wsvars, hist, cap, chat, pair, mediaReqs, pcs, peersRef, tasks, offerTimers,
                 remoteStreams, participants, sent>>

\* cleanup(): close and forget every registered peer connection, stop and
\* release the referenced local stream, drop the remote streams.
InRegistry(k) == \E p \in Peers : peersRef[p] = k

ClosedPCs ==
  [k \in 1..Len(pcs) |->
     IF InRegistry(k) THEN [pcs[k] EXCEPT !.sig = "closed", !.conn = "closed"]
     ELSE pcs[k]]

StoppedStreams ==
  IF comp.localStreamRef # 0
  THEN [streams EXCEPT ![comp.localStreamRef].stopped = TRUE]
  ELSE streams

cleanup ==
  /\ pcs' = ClosedPCs
  /\ peersRef' = [p \in Peers |-> 0]
  /\ streams' = StoppedStreams
  /\ remoteStreams' = <<>>

\* handleEndCall: cleanup(), then navigate(...), which unmounts the component
\* at the next commit.
HandleEndCall ==
  /\ comp.mounted = "yes"
  /\ cleanup
  /\ comp' = [comp EXCEPT !.mounted = "leaving", !.localStreamRef = 0, !.localStream = 0]
  /\ last' = Step("handleEndCall", "", TRUE, <<>>)
  /\ UNCHANGED <<wsvars, hist, cap, chat, pair, mediaReqs, tasks, offerTimers, participants, sent>>

\* The component unmounts (after handleEndCall, or by navigation): the effect
\* cleanups send call_end, run cleanup() and unsubscribe the handler. The
\* transport channel is left connected.
Unmount ==
  /\ comp.mounted \in {"yes", "leaving"}
  /\ cleanup
  /\ comp' = [comp EXCEPT !.mounted = "ended", !.localStreamRef = 0, !.localStream = 0]
  /\ listeners' = Unsubscribed(listeners)
  /\ last' = Step("unmount", "", TRUE, TxFx("call_end", ""))
  /\ UNCHANGED <<socks, ws, isConnecting, reconnectAttempts, getToken, pend, timers,
                 hist, cap, chat, pair, mediaReqs, tasks, offerTimers, participants, sent>>

----------------------------------------------------------------------------
(* The VoiceCall component: peer connections and signaling *)

\* A frame of the given type reaches the component's handler: it arrives on
\* an open socket and the handler is subscribed to its type.
Delivers(type) ==
  /\ \E s \in 1..Len(socks) : ReadyState(s) = "OPEN"
  /\ IndexOf(listeners[type], Handler) > 0

\* createPeerConnection(userId): a new connection, registered under userId.
NewPC(p) == [user |-> p, sig |-> "stable", conn |-> "new", remote |-> FALSE]

\* peersRef.current.get(p) || createPeerConnection(p)
PCsWith(p) == IF peersRef[p] # 0 THEN pcs ELSE Append(pcs, NewPC(p))

PCOf(p) == IF peersRef[p] # 0 THEN peersRef[p] ELSE Len(pcs) + 1

CanCreatePC(p) == peersRef[p] # 0 \/ Len(pcs) < cap.pcs

CanAwait == Len(tasks) < cap.tasks

Task(h, p, k, step) == [h |-> h, user |-> p, pc |-> k, step |-> step]

\* The suspended handlers are kept grouped by connection, each group in the
\* order in which its operations were chained on the connection.
Enqueue(ts, t) ==
  LET k == Cardinality({j \in 1..Len(ts) : ts[j].pc <= t.pc})
  IN SubSeq(ts, 1, k) \o <<t>> \o SubSeq(ts, k + 1, Len(ts))

\* createOfferForUser(userId) goes on to create an offer: there is a local
\* stream, and the entry of userId is absent, or stable and not connected.
OfferProceedsWhenConnected(p) ==
  /\ comp.localStreamRef # 0
  /\ peersRef[p] # 0 => pcs[peersRef[p]].sig = "stable"

OfferProceeds(p) ==
  /\ comp.localStreamRef # 0
  /\ peersRef[p] # 0 =>
       /\ pcs[peersRef[p]].sig = "stable"
       /\ pcs[peersRef[p]].conn # "connected"

\* A timer set by the handler fires: createOfferForUser(p) up to
\* `await peerConnection.createOffer(...)`.
OfferTimerFire(p) ==
  /\ offerTimers[p] > 0
  /\ OfferProceeds(p) => CanCreatePC(p) /\ CanAwait
  /\ offerTimers' = [offerTimers EXCEPT ![p] = @ - 1]
  /\ IF OfferProceeds(p)
     THEN /\ pcs' = PCsWith(p)
          /\ peersRef' = [peersRef EXCEPT ![p] = PCOf(p)]
          /\ tasks' = Enqueue(tasks, Task("createOfferForUser", p, PCOf(p), "createOffer"))
     ELSE UNCHANGED <<pcs, peersRef, tasks>>
  /\ last' = Step("createOfferForUser", p, OfferProceeds(p),
                  IF OfferProceeds(p) /\ peersRef[p] = 0
                  THEN <<Fx("new", p, "", Len(pcs) + 1)>> ELSE <<>>)
  /\ UNCHANGED <<wsvars, hist, cap, chat, pair, comp, streams, mediaReqs, remoteStreams,
                 participants, sent>>

\* handleOffer goes past its signaling-state check.
HandleOfferProceedsAlways(sig) == TRUE

HandleOfferProceeds(sig) == sig = "stable"

\* A webrtc_offer frame from p: handleOffer up to
\* `await peerConnection.setRemoteDescription(...)`.
RecvOffer(p) ==
  /\ Delivers("webrtc_offer")
  /\ comp.localStreamRef # 0 => CanCreatePC(p) /\ CanAwait
  /\ IF comp.localStreamRef = 0
     THEN /\ UNCHANGED <<pcs, peersRef, tasks>>
          /\ last' = Step("handleOffer", p, FALSE, <<>>)
     ELSE /\ pcs' = PCsWith(p)
          /\ peersRef' = [peersRef EXCEPT ![p] = PCOf(p)]
          /\ IF HandleOfferProceeds(PCsWith(p)[PCOf(p)].sig)
             THEN /\ tasks' = Enqueue(tasks, Task("handleOffer", p, PCOf(p),
                                                 "setRemoteDescription"))
                  /\ last' = Step("handleOffer", p, TRUE,
                                  IF peersRef[p] = 0
                                  THEN <<Fx("new", p, "", Len(pcs) + 1)>> ELSE <<>>)
             ELSE /\ UNCHANGED tasks
                  /\ last' = Step("handleOffer", p, FALSE, <<>>)
  /\ UNCHANGED <<wsvars, hist, cap, chat, pair, comp, streams, mediaReqs, offerTimers,
                 remoteStreams, participants, sent>>

\* handleAnswer goes past its checks: an entry in have-local-offer.
HandleAnswerProceeds(p) ==
  peersRef[p] # 0 /\ pcs[peersRef[p]].sig = "have-local-offer"

\* A webrtc_answer frame from p: handleAnswer up to
\* `await peerConnection.setRemoteDescription(...)`.
RecvAnswer(p) ==
  /\ Delivers("webrtc_answer")
  /\ HandleAnswerProceeds(p) => CanAwait
  /\ tasks' = IF HandleAnswerProceeds(p)
              THEN Enqueue(tasks, Task("handleAnswer", p, peersRef[p],
                                      "setRemoteDescription"))
              ELSE tasks
  /\ last' = Step("handleAnswer", p, HandleAnswerProceeds(p), <<>>)
  /\ UNCHANGED <<wsvars, hist, cap, chat, pair, comp, streams, mediaReqs, pcs, peersRef, offerTimers,
                 remoteStreams, participants, sent>>

\* A webrtc_ice_candidate frame from p: handleIceCandidate up to
\* `await peerConnection.addIceCandidate(...)`, when p has an entry.
RecvCandidate(p) ==
  /\ Delivers("webrtc_ice_candidate")
  /\ peersRef[p] # 0 => CanAwait
  /\ tasks' = IF peersRef[p] # 0
              THEN Enqueue(tasks, Task("handleIceCandidate", p, peersRef[p],
                                      "addIceCandidate"))
              ELSE tasks
  /\ last' = Step("handleIceCandidate", p, peersRef[p] # 0, <<>>)
  /\ UNCHANGED <<wsvars, hist, cap, chat, pair, comp, streams, mediaReqs, pcs, peersRef, offerTimers,
                 remoteStreams, participants, sent>>

\* A participant_mute_status frame naming p arrives on an open socket and is
\* dispatched to the listeners of its type: the component's handler, when it
\* is among them and p is not this user, sets isMuted in p's record of the
\* participants map, creating the record when there is none.
RecvMuteStatus(p, muted) ==
  /\ \E s \in 1..Len(socks) : ReadyState(s) = "OPEN"
  /\ LET handled == IndexOf(listeners[MuteStatus], Handler) > 0 /\ p # Self
     IN /\ participants' = IF handled
                           THEN [participants EXCEPT
                                   ![p] = IF muted THEN "muted" ELSE "unmuted"]
                           ELSE participants
        /\ last' = Step(MuteStatus, p, handled, <<Fx("frame", B(muted), "", 0)>>)
  /\ UNCHANGED <<wsvars, hist, cap, chat, pair, comp, streams, mediaReqs, pcs, peersRef, tasks,
                 offerTimers, remoteStreams, sent>>

\* A user_joined or call_participant_ready frame naming p: with a local
\* stream and p not this user, createOfferForUser(p) half a second later.
RecvReady(type, p) ==
  /\ Delivers(type)
  /\ p \in Peers => offerTimers[p] < MaxOfferTimers
  /\ LET sets == p # Self /\ comp.localStreamRef # 0
     IN /\ offerTimers' = IF sets THEN [offerTimers EXCEPT ![p] = @ + 1] ELSE offerTimers
        /\ last' = Step(type, p, sets,
                        IF sets THEN <<Fx("timer", p, "", 500)>> ELSE <<>>)
  /\ UNCHANGED <<wsvars, hist, cap, chat, pair, comp, streams, mediaReqs, pcs, peersRef, tasks,
                 remoteStreams, participants, sent>>

\* The participants of a call_participants_list for which the handler sets a
\* timer, with the index each has in the list.
ListTargetsButFirst(list) ==
  {i \in 2..Len(list) : list[i] # Self /\ peersRef[list[i]] = 0}

ListTargets(list) ==
  {i \in 1..Len(list) : list[i] # Self /\ peersRef[list[i]] = 0}

TimersSetFor(list, p) == Cardinality({i \in ListTargets(list) : list[i] = p})

RECURSIVE ListTimersFx(_, _)
ListTimersFx(list, i) ==
  IF i > Len(list) THEN <<>>
  ELSE (IF i \in ListTargets(list)
        THEN <<Fx("timer", list[i], "", 500 + ((i - 1) * 200))>> ELSE <<>>)
       \o ListTimersFx(list, i + 1)

\* A call_participants_list frame: with a local stream and a non-empty list,
\* one timer per listed participant that is not this user and has no entry.
RecvParticipantsList(list) ==
  /\ Delivers("call_participants_list")
  /\ LET sets == comp.localStreamRef # 0 /\ Len(list) > 0
     IN /\ sets => \A p \in Peers : offerTimers[p] + TimersSetFor(list, p) <= MaxOfferTimers
        /\ offerTimers' = IF sets
                          THEN [p \in Peers |-> offerTimers[p] + TimersSetFor(list, p)]
                          ELSE offerTimers
        /\ last' = Step("call_participants_list", "", sets,
                        IF sets THEN ListTimersFx(list, 1) ELSE <<>>)
  /\ hist' = [hist EXCEPT !.lists = Sat(@), !.list = list]
  /\ UNCHANGED <<wsvars, cap, chat, pair, comp, streams, mediaReqs, pcs, peersRef, tasks,
                 remoteStreams, participants, sent>>

\* The operations chain of a peer connection: the operation of tasks[i] is
\* the next to settle when no earlier task waits on the same connection.
Settles(i) == \A j \in 1..(i - 1) : tasks[j].pc # tasks[i].pc

\* The operation a suspended handler waits on succeeds: the platform accepts
\* it (good) and the signaling state of the connection allows it.
OperationAcceptedInAnyState(t, sig, remote) == sig # "closed"

OperationAccepted(t, sig, remote) ==
  /\ sig # "closed"
  /\ CASE t.step = "createOffer" -> TRUE
       [] t.step = "createAnswer" -> sig = "have-remote-offer"
       [] t.step = "setLocalDescription" /\ t.h = "createOfferForUser" ->
            sig \in {"stable", "have-local-offer"}
       [] t.step = "setLocalDescription" /\ t.h = "handleOffer" ->
            sig = "have-remote-offer"
       [] t.step = "setRemoteDescription" /\ t.h = "handleOffer" ->
            sig \in {"stable", "have-remote-offer", "have-local-offer"}
       [] t.step = "setRemoteDescription" /\ t.h = "handleAnswer" ->
            sig = "have-local-offer"
       [] t.step = "addIceCandidate" -> remote

OperationSucceeds(t, good) ==
  good /\ OperationAccepted(t, pcs[t.pc].sig, pcs[t.pc].remote)

\* The signaling state a successful operation leaves.
SignalingAfterAnswerIgnored(t, sig) ==
  CASE t.step = "setLocalDescription" /\ t.h = "createOfferForUser" -> "have-local-offer"
    [] t.step = "setLocalDescription" /\ t.h = "handleOffer" -> "stable"
    [] t.step = "setRemoteDescription" /\ t.h = "handleOffer" -> "have-remote-offer"
    [] OTHER -> sig

SignalingAfter(t, sig) ==
  CASE t.step = "setLocalDescription" /\ t.h = "createOfferForUser" -> "have-local-offer"
    [] t.step = "setLocalDescription" /\ t.h = "handleOffer" -> "stable"
    [] t.step = "setRemoteDescription" /\ t.h = "handleOffer" -> "have-remote-offer"
    [] t.step = "setRemoteDescription" /\ t.h = "handleAnswer" -> "stable"
    [] OTHER -> sig

\* The await the handler reaches next, "" when it has none left.
NextAwait(t) ==
  CASE t.step = "createOffer" -> "setLocalDescription"
    [] t.step = "setRemoteDescription" /\ t.h = "handleOffer" -> "createAnswer"
    [] t.step = "createAnswer" -> "setLocalDescription"
    [] OTHER -> ""

\* The message the handler sends after its last await, "" when none.
SendsAfter(t) ==
  CASE t.step = "setLocalDescription" /\ t.h = "createOfferForUser" -> "webrtc_offer"
    [] t.step = "setLocalDescription" /\ t.h = "handleOffer" -> "webrtc_answer"
    [] OTHER -> ""

\* The catch block of the handler deletes the entry of the participant: all
\* do but handleIceCandidate's, which only logs.
CatchDeletesAlways(h) == TRUE

CatchDeletes(h) == h # "handleIceCandidate"

\* An awaited operation settles and its handler resumes: on success up to
\* its next await or its end, on failure in its catch block.
TaskStep(i, good) ==
  /\ i \in 1..Len(tasks)
  /\ Settles(i)
  /\ LET t == tasks[i]
         ok == OperationSucceeds(t, good)
         kind == SendsAfter(t)
         tx == IF ok /\ kind # "" THEN TxFx(kind, t.user) ELSE <<>>
     IN /\ pcs' = IF ok
                   THEN [pcs EXCEPT ![t.pc].sig = SignalingAfter(t, @),
                                    ![t.pc].remote = @ \/ t.step = "setRemoteDescription"]
                   ELSE pcs
        /\ peersRef' = IF ok \/ ~CatchDeletes(t.h) THEN peersRef
                       ELSE [peersRef EXCEPT ![t.user] = 0]
        /\ tasks' = IF ok /\ NextAwait(t) # ""
                    THEN Enqueue(RemoveAt(tasks, i), [t EXCEPT !.step = NextAwait(t)])
                    ELSE RemoveAt(tasks, i)
        /\ sent' = IF tx # <<>> /\ sent[kind, t.user] < cap.sent
                   THEN [sent EXCEPT ![kind, t.user] = @ + 1] ELSE sent
        /\ last' = Step("resume", t.user, ok, <<Fx("await", t.h, t.step, t.pc)>> \o tx)
  /\ UNCHANGED <<wsvars, hist, cap, chat, pair, comp, streams, mediaReqs, offerTimers,
                 remoteStreams, participants>>

\* peerConnection.ontrack of the connection created for its user: the
\* stream record `stream-${userId}` is added, or replaced when present. Media
\* arrives once a remote description has been applied.
OnTrack(k) ==
  /\ k \in 1..Len(pcs)
  /\ pcs[k].sig # "closed" /\ pcs[k].remote
  /\ remoteStreams' = IF IndexOf(remoteStreams, pcs[k].user) > 0
                      THEN remoteStreams
                      ELSE Append(remoteStreams, pcs[k].user)
  /\ last' = Step("ontrack", pcs[k].user, IndexOf(remoteStreams, pcs[k].user) = 0, <<>>)
  /\ UNCHANGED <<wsvars, hist, cap, chat, pair, comp, streams, mediaReqs, pcs, peersRef, tasks,
                 offerTimers, participants, sent>>

\* The connection states the browser reports through connectionstatechange,
\* and the changes it makes: a connection connects, loses and regains
\* connectivity, and fails for good (the component never restarts ICE).
ConnectionStates == {"connected", "disconnected", "failed"}

ConnectionChanges(from, to) ==
  \/ from \in {"new", "disconnected"} /\ to \in {"connected", "failed"}
  \/ from = "connected" /\ to = "disconnected"

\* onconnectionstatechange: the states on which the handler removes the
\* participant.
RemovedOnFailedOnly(st) == st = "failed"

RemovedOn(st) == st = "failed" \/ st = "disconnected"

\* peerConnection.onconnectionstatechange of the connection created for its
\* user, the browser reporting state st. The step records the state and
\* whether the user had an entry and a stream record before it.
ConnChange(k, st) ==
  /\ k \in 1..Len(pcs)
  /\ pcs[k].sig # "closed" /\ pcs[k].remote
  /\ ConnectionChanges(pcs[k].conn, st)
  /\ pcs' = [pcs EXCEPT ![k].conn = st]
  /\ IF RemovedOn(st)
     THEN /\ peersRef' = [peersRef EXCEPT ![pcs[k].user] = 0]
          /\ remoteStreams' = SelectSeq(remoteStreams, LAMBDA u : u # pcs[k].user)
     ELSE UNCHANGED <<peersRef, remoteStreams>>
  /\ last' = Step("onconnectionstatechange", pcs[k].user, TRUE,
                  <<Fx("conn", st, B(peersRef[pcs[k].user] # 0),
                       IndexOf(remoteStreams, pcs[k].user))>>)
  /\ UNCHANGED <<wsvars, hist, cap, chat, pair, comp, streams, mediaReqs, tasks, offerTimers,
                 participants, sent>>

----------------------------------------------------------------------------
(* The ChatRoom component: the incoming-call banner *)

CallTypes == {"voice", "video"}

\* The chat room on screen, no call announced.
InChatRoom == [incomingCall |-> NoCall, route |-> [page |-> "chat", type |-> ""]]

\* data.call_type || 'voice'
CallTypeOf(t) == IF t = "" THEN "voice" ELSE t

\* A frame of the given type reaches handleIncomingCall: it arrives on an
\* open socket while the chat room is on screen (its effect subscribes the
\* handler on mount and unsubscribes it on unmount).
ChatDelivers ==
  /\ chat.route.page = "chat"
  /\ \E s \in 1..Len(socks) : ReadyState(s) = "OPEN"

\* handleIncomingCall for an incoming_call frame.
RecvIncomingCall(caller, t) ==
  /\ ChatDelivers
  /\ chat' = IF caller # Self
             THEN [chat EXCEPT !.incomingCall =
                                 [caller_id |-> caller, call_type |-> CallTypeOf(t)]]
             ELSE chat
  /\ last' = Step("incoming_call", caller, caller # Self, <<>>)
  /\ UNCHANGED <<wsvars, hist, cap, pair, callvars>>

\* handleIncomingCall for a call_ended or call_declined frame.
RecvCallOver(type) ==
  /\ ChatDelivers
  /\ chat' = [chat EXCEPT !.incomingCall = NoCall]
  /\ last' = Step(type, "", TRUE, <<>>)
  /\ UNCHANGED <<wsvars, hist, cap, pair, callvars>>

\* navigate(`/group/${groupId}/call?type=${incomingCall.call_type}`)
RouteOfVoice(ic) == [page |-> "call", type |-> "voice"]

RouteOf(ic) == [page |-> "call", type |-> ic.call_type]

\* handleAcceptCall: the step records the pending call it found.
HandleAcceptCall ==
  /\ chat.route.page = "chat"
  /\ IF chat.incomingCall # NoCall
     THEN /\ chat' = [incomingCall |-> NoCall, route |-> RouteOf(chat.incomingCall)]
          /\ last' = Step("handleAcceptCall", chat.incomingCall.caller_id, TRUE,
                          TxFx("call_accept", ""))
     ELSE /\ UNCHANGED chat
          /\ last' = Step("handleAcceptCall", "", FALSE, <<>>)
  /\ UNCHANGED <<wsvars, hist, cap, pair, callvars>>

\* handleDeclineCall: the step records the pending call it found.
HandleDeclineCall ==
  /\ chat.route.page = "chat"
  /\ IF chat.incomingCall # NoCall
     THEN /\ chat' = [chat EXCEPT !.incomingCall = NoCall]
          /\ last' = Step("handleDeclineCall", chat.incomingCall.caller_id, TRUE,
                          TxFx("call_decline", ""))
     ELSE /\ UNCHANGED chat
          /\ last' = Step("handleDeclineCall", "", FALSE, <<>>)
  /\ UNCHANGED <<wsvars, hist, cap, pair, callvars>>

----------------------------------------------------------------------------
(* A call from mount to unmount, with remote participants CallPeers *)

\* The service as the chat room leaves it when the user navigates to the
\* call: connected to the room, token provider installed, the chat room's
\* listeners removed, the socket kept open.
ChatRoomConnected ==
  /\ socks = <<[rs |-> "OPEN", room |-> groupId]>>
  /\ ws = 1
  /\ isConnecting = FALSE
  /\ reconnectAttempts = 0
  /\ listeners = [e \in EventNames |-> <<>>]
  /\ pend = [g \in Rooms |-> 0]
  /\ timers = <<>>
  /\ last = Step("init", "", TRUE, <<>>)
  /\ hist = [connects |-> 1, opens |-> TRUE, resets |-> FALSE, failed |-> 0,
             lists |-> 0, list |-> <<>>,
             started |-> FALSE, ready |-> FALSE]
  /\ getToken = TRUE

\* The call page is opened either directly (service just constructed) or
\* from the chat room.
InitCall ==
  /\ \/ Constructed /\ getToken = FALSE
     \/ ChatRoomConnected
  /\ Unmounted
  /\ chat = Away
  /\ pair = Strangers
  /\ cap = [socks |-> MaxCallSockets, pcs |-> 0, tasks |-> 0, sent |-> 0, trace |-> TRUE]

\* The continuation of `await wsService.connect(groupId)` in initializeCall
\* is a microtask: once connect() has returned it runs before any event of
\* the socket is dispatched.
AwaitResumed == comp.initializeCall # "connect" \/ pend[groupId] > 0

Permissions == {"unsupported", "denied", "prompt"}

NextCall ==
  \/ \E video \in BOOLEAN, perm \in Permissions : Mount(video, perm)
  \/ \E g \in {groupId} : TokenResolve(g)
  \/ \E s \in 1..Len(socks) : AwaitResumed /\ SockOpen(s)
  \/ \E s \in 1..Len(socks) : AwaitResumed /\ SockClose(s)
  \/ InitAfterConnect
  \/ InitTimerFire
  \/ MediaGranted
  \/ \E name \in ErrorNames : MediaFailed(name)
  \/ PermissionChange
  \/ RetryPermissions
  \/ ToggleMute
  \/ ToggleVideo
  \/ HandleEndCall
  \/ Unmount

SpecCall == InitCall /\ [][NextCall]_vars

----------------------------------------------------------------------------
(* Signaling during a voice call: the component is mounted, the channel is *)
(* open on the room of the call, the microphone stream is held.            *)

InCall ==
  /\ chat = Away
  /\ socks = <<[rs |-> "OPEN", room |-> groupId]>>
  /\ ws = 1
  /\ isConnecting = FALSE
  /\ reconnectAttempts = 0
  /\ listeners = Subscribed([e \in EventNames |-> <<>>])
  /\ getToken = TRUE
  /\ pend = [g \in Rooms |-> 0]
  /\ timers = <<>>
  /\ last = Step("readyTimer", "", TRUE, <<Fx("tx", "call_participant_ready", "", 1)>>)
  /\ hist = [connects |-> 1, opens |-> TRUE, resets |-> FALSE, failed |-> 0,
             lists |-> 0, list |-> <<>>,
             started |-> TRUE, ready |-> TRUE]
  /\ comp = [mounted |-> "yes", isVideo |-> FALSE, isMuted |-> FALSE,
             isVideoOff |-> FALSE, permissionStatus |-> "granted",
             permissionError |-> "", error |-> FALSE, localStream |-> 1,
             localStreamRef |-> 1, watching |-> TRUE, initializeCall |-> "done"]
  /\ streams = <<[audio |-> TRUE, video |-> "none", stopped |-> FALSE]>>
  /\ mediaReqs = 0
  /\ pcs = <<>>
  /\ peersRef = [p \in Peers |-> 0]
  /\ tasks = <<>>
  /\ offerTimers = [p \in Peers |-> 0]
  /\ remoteStreams = <<>>
  /\ participants = [p \in Users |-> IF p = Self THEN "unmuted" ELSE "none"]
  /\ sent = [k \in SentKinds, p \in Peers |-> 0]

InitSignal ==
  /\ InCall
  /\ pair = Strangers
  /\ cap = [socks |-> 1, pcs |-> MaxPCs, tasks |-> MaxTasks, sent |-> 0, trace |-> TRUE]

NextSignal ==
  \/ \E p \in CallPeers : RecvOffer(p)
  \/ \E p \in CallPeers : RecvAnswer(p)
  \/ \E p \in CallPeers : RecvReady("call_participant_ready", p)
  \/ \E p \in CallPeers : OfferTimerFire(p)
  \/ \E i \in 1..Len(tasks), good \in BOOLEAN : TaskStep(i, good)
  \/ HandleEndCall
  \/ Unmount

SpecSignal == InitSignal /\ [][NextSignal]_vars

----------------------------------------------------------------------------
(* The microphone and camera buttons during a call opened from the chat    *)
(* room: they are pressed before and after media access is granted, while  *)
(* offers are received and answered, with the channel open or closed.      *)

InitToggles ==
  /\ ChatRoomConnected
  /\ Unmounted
  /\ chat = Away
  /\ pair = Strangers
  /\ cap = [socks |-> 1, pcs |-> MaxPCs, tasks |-> MaxTasks, sent |-> 0, trace |-> FALSE]

NextToggles ==
  \/ \E video \in BOOLEAN : Mount(video, "prompt")
  \/ MediaGranted
  \/ ToggleMute
  \/ ToggleVideo
  \/ \E p \in CallPeers : RecvOffer(p)
  \/ \E i \in 1..Len(tasks) : TaskStep(i, TRUE)
  \/ \E s \in 1..Len(socks) : SockClose(s)
  \/ HandleEndCall

SpecToggles == InitToggles /\ [][NextToggles]_vars

----------------------------------------------------------------------------
(* ICE candidates during a voice call: they arrive before, while and after *)
(* offers are received and created, and the platform accepts or rejects    *)
(* them; the call is ended.                                                *)

InitCandidates ==
  /\ InCall
  /\ pair = Strangers
  /\ cap = [socks |-> 1, pcs |-> MaxPCs, tasks |-> MaxTasks, sent |-> 0, trace |-> TRUE]

NextCandidates ==
  \/ \E p \in CallPeers : RecvCandidate(p)
  \/ \E p \in CallPeers : RecvOffer(p)
  \/ \E p \in CallPeers : RecvReady("call_participant_ready", p)
  \/ \E p \in CallPeers : OfferTimerFire(p)
  \/ \E i \in 1..Len(tasks), good \in BOOLEAN : TaskStep(i, good)
  \/ HandleEndCall

SpecCandidates == InitCandidates /\ [][NextCandidates]_vars

----------------------------------------------------------------------------
(* Two remote participants in a voice call: their offers are answered,     *)
(* their media arrives, their connections change state; the call is ended. *)

PeerPair == {"u2", "u3"}

InitPeers ==
  /\ InCall
  /\ pair = Strangers
  /\ cap = [socks |-> 1, pcs |-> Cardinality(PeerPair), tasks |-> MaxTasks, sent |-> 0,
            trace |-> TRUE]

NextPeers ==
  \/ \E p \in PeerPair : RecvOffer(p)
  \/ \E i \in 1..Len(tasks) : TaskStep(i, TRUE)
  \/ \E k \in 1..Len(pcs) : OnTrack(k)
  \/ \E k \in 1..Len(pcs), st \in ConnectionStates : ConnChange(k, st)
  \/ HandleEndCall

SpecPeers == InitPeers /\ [][NextPeers]_vars

----------------------------------------------------------------------------
(* Presence in a voice call: participants announce themselves (this user's *)
(* own announcement comes back too), offers are created for them and       *)
(* answered (the platform accepting every operation the connection's state *)
(* allows), connections get connected, the channel may close; the call is  *)
(* ended.                                                                  *)

Announced == CallPeers \cup {Self}

InitPresence ==
  /\ InCall
  /\ pair = Strangers
  /\ cap = [socks |-> 1, pcs |-> MaxPCs, tasks |-> MaxTasks, sent |-> 0, trace |-> TRUE]

NextPresence ==
  \/ \E type \in {"user_joined", "call_participant_ready"}, p \in Announced :
       RecvReady(type, p)
  \/ \E p \in Announced, muted \in BOOLEAN : RecvMuteStatus(p, muted)
  \/ \E p \in CallPeers : OfferTimerFire(p)
  \/ \E p \in CallPeers : RecvAnswer(p)
  \/ \E i \in 1..Len(tasks) : TaskStep(i, TRUE)
  \/ \E k \in 1..Len(pcs) : ConnChange(k, "connected")
  \/ \E s \in 1..Len(socks) : SockClose(s)
  \/ HandleEndCall

SpecPresence == InitPresence /\ [][NextPresence]_vars

----------------------------------------------------------------------------
(* The chat room on screen, connected to its room: calls are announced,    *)
(* withdrawn, accepted and declined while the channel closes and reopens.  *)

Callers == {Self, "u2"}

InitChat ==
  /\ ChatRoomConnected
  /\ Unmounted
  /\ chat = InChatRoom
  /\ pair = Strangers
  /\ cap = [socks |-> MaxSockets, pcs |-> 0, tasks |-> 0, sent |-> 0, trace |-> TRUE]

NextChat ==
  \/ \E caller \in Callers, t \in CallTypes \cup {""} : RecvIncomingCall(caller, t)
  \/ \E type \in {"call_ended", "call_declined"} : RecvCallOver(type)
  \/ HandleAcceptCall
  \/ HandleDeclineCall
  \/ \E s \in 1..Len(socks) : SockClose(s)
  \/ \E i \in 1..Len(timers) : TimerFire(i)
  \/ \E g \in {groupId} : TokenResolve(g)
  \/ \E s \in 1..Len(socks) : SockOpen(s)

SpecChat == InitChat /\ [][NextChat]_vars

----------------------------------------------------------------------------
(* Leaving a voice call: permission changes and inbound offers while the   *)
(* call is up, then the end of the call.                                   *)

InitLeave ==
  /\ InCall
  /\ pair = Strangers
  /\ cap = [socks |-> 1, pcs |-> MaxPCs, tasks |-> MaxTasks, sent |-> 0, trace |-> TRUE]

NextLeave ==
  \/ PermissionChange
  \/ MediaGranted
  \/ \E name \in ErrorNames : MediaFailed(name)
  \/ \E p \in CallPeers : RecvOffer(p)
  \/ \E i \in 1..Len(tasks), good \in BOOLEAN : TaskStep(i, good)
  \/ \E s \in 1..Len(socks) : SockClose(s)
  \/ HandleEndCall
  \/ Unmount

SpecLeave == InitLeave /\ [][NextLeave]_vars

----------------------------------------------------------------------------
(* One participants list during a voice call: the list arrives once, every *)
(* timer fires, every awaited operation settles successfully, and each     *)
(* participant answers the offer it was sent, once.                        *)

\* The timers set for a list fire in any order, so what a list does depends
\* on who is listed, not on the order: each set of at most MaxListLen users
\* is listed in one order.
ListOrder == <<"u2", "u1", "u3", "u4", "u5">>

Lists == {SelectSeq(ListOrder, LAMBDA u : u \in S) :
            S \in {T \in SUBSET Users : Cardinality(T) <= MaxListLen}}

InitOffers ==
  /\ InCall
  /\ pair = Strangers
  /\ cap = [socks |-> 1, pcs |-> Cardinality(Peers), tasks |-> 2 * Cardinality(Peers),
            sent |-> 2, trace |-> TRUE]

ListArrives == \E list \in Lists : hist.lists = 0 /\ RecvParticipantsList(list)

TimersFire == \E p \in Peers : OfferTimerFire(p)

OperationsSettle == \E i \in 1..Len(tasks) : TaskStep(i, TRUE)

Answering(p) == \E i \in 1..Len(tasks) : tasks[i].user = p /\ tasks[i].h = "handleAnswer"

AnswerArrives ==
  \E p \in Peers : /\ sent["webrtc_offer", p] > 0
                   /\ HandleAnswerProceeds(p)
                   /\ ~Answering(p)
                   /\ RecvAnswer(p)

NextOffers ==
  \/ ListArrives
  \/ TimersFire
  \/ OperationsSettle
  \/ AnswerArrives

SpecOffers ==
  InitOffers /\ [][NextOffers]_vars /\ WF_vars(TimersFire) /\ WF_vars(OperationsSettle)

----------------------------------------------------------------------------
(* Properties of the transport channel *)

NonClosed == {s \in 1..Len(socks) : ReadyState(s) # "CLOSED"}

AllClosed == NonClosed = {}

\* C1: over connect() calls, reconnect timer firings and socket events (no
\* disconnect() so far), at most one connection is non-closed or being
\* created at any time: a connect() issued while one is connecting or open
\* creates nothing.
C1_AtMostOneConnection ==
  ~hist.resets => Cardinality(NonClosed) + PendCount <= 1

\* C1 witness: a reconnect timer fired while another connection was open and
\* its connect() returned without creating a connection.
C1_Witness ==
  /\ ~hist.resets
  /\ last.op = "timer" /\ ~last.ok /\ last.fx = <<>>
  /\ \E s \in 1..Len(socks) : ReadyState(s) = "OPEN"

EmitIndex(fx, ev) == IndexOf(fx, Fx("emit", ev, "", 0))

TimersIn(fx) == SelectSeq(fx, LAMBDA e : e.k = "timer")

\* C11: every closure of a socket emits `disconnected`; then, with the
\* attempt counter below 5, the counter goes up by one to k, exactly one
\* reconnect is scheduled, for the room of the socket, 1000 ms x k later, and
\* `reconnect_failed` is not emitted; with the counter at 5, `reconnect_failed`
\* is emitted after `disconnected` and nothing is scheduled.
C11_LinearBackoff ==
  [][last'.op = "onclose" =>
       /\ EmitIndex(last'.fx, "disconnected") > 0
       /\ IF reconnectAttempts < 5
          THEN LET k == reconnectAttempts + 1 IN
               /\ reconnectAttempts' = k
               /\ timers' = Append(timers, [room |-> last'.arg, delay |-> 1000 * k])
               /\ TimersIn(last'.fx) = <<Fx("timer", last'.arg, "", 1000 * k)>>
               /\ EmitIndex(last'.fx, "reconnect_failed") = 0
          ELSE /\ EmitIndex(last'.fx, "reconnect_failed")
                  > EmitIndex(last'.fx, "disconnected")
               /\ TimersIn(last'.fx) = <<>>
               /\ UNCHANGED <<timers, reconnectAttempts>>]_vars

\* C11 witness: the fifth consecutive failure has scheduled the reconnect
\* 5000 ms later, after those scheduled 1000, 2000, 3000 and 4000 ms later.
C11_Witness ==
  /\ last.op = "onclose"
  /\ reconnectAttempts = 5
  /\ Len(socks) = 5
  /\ timers = <<[room |-> "g1", delay |-> 5000]>>

EmittedEvents(fx) == SelectSeq(fx, LAMBDA e : e.k = "emit")

ClosedOpenSocket == \E s \in 1..Len(socks) : ReadyState(s) = "OPEN" /\ socks'[s].rs = "CLOSED"

EffectsOf(fx, kinds) == SelectSeq(fx, LAMBDA e : e.k \in kinds)

\* disconnect() has been called and connect() has not been called since
\* (after a disconnect(), hist.connects is 0 until the next connect() call).
Idle == hist.resets /\ hist.connects = 0

\* C13 (as stated): disconnect() leaves the listener registry empty and the
\* attempt counter at 0; from then until connect() is called again
\* (Idle) the counter stays 0, no socket is created, no token is awaited
\* for a connection, and no reconnect timer is set or fires.
C13_Original ==
  /\ [][last'.op = "disconnect" =>
          /\ \A e \in EventNames : listeners'[e] = <<>>
          /\ reconnectAttempts' = 0]_vars
  /\ [](Idle => reconnectAttempts = 0)
  /\ [][(Idle /\ Idle') =>
          /\ Len(socks') = Len(socks)
          /\ EffectsOf(last'.fx, {"new", "timer"}) = <<>>
          /\ \A g \in Rooms : pend'[g] <= pend[g]
          /\ Len(timers') <= Len(timers)
          /\ last'.op # "timer"]_vars

\* The component is mounted and holds the microphone, the channel is open,
\* and initializeCall has run to its end: no step of the start-up is left.
StartupOver ==
  /\ comp.mounted = "yes"
  /\ comp.initializeCall = "done"
  /\ comp.permissionStatus = "granted" /\ comp.localStreamRef # 0
  /\ mediaReqs = 0
  /\ SendAllowed

\* C14 (as stated): once the start-up is over with media granted and the
\* channel open, the call-start notification and a presence-ready signal have
\* been transmitted; and the call-start notification has been transmitted
\* only if the component holds local media.
C14_Original ==
  /\ StartupOver => (hist.started /\ hist.ready)
  /\ (comp.mounted = "yes" /\ hist.started) => comp.localStreamRef # 0

----------------------------------------------------------------------------
(* Properties of send and of event dispatch *)

\* C8: send(m) transmits m on the current socket and returns true exactly
\* when that socket is open; otherwise it returns false and transmits
\* nothing; either way the handle, the flags, the attempt counter, the
\* listeners, the pending connects and the timers are left as they were.
C8_SendOnlyWhenOpen ==
  [][last'.op = "send" =>
       /\ last'.ok <=> (ws # 0 /\ ReadyState(ws) = "OPEN")
       /\ last'.fx = IF last'.ok THEN <<Fx("tx", last'.arg, "", ws)>> ELSE <<>>
       /\ UNCHANGED wsvars]_vars

\* C8 witness: send() was refused, returning false, while the current socket
\* was still connecting.
C8_Witness ==
  /\ last.op = "send" /\ ~last.ok /\ last.fx = <<>>
  /\ ws # 0 /\ ReadyState(ws) = "CONNECTING"

\* The callbacks invoked by the emit at position i of fx are exactly the
\* callbacks cbs, each once, in the order of cbs.
InvokesAll(fx, i, cbs) ==
  /\ i + Len(cbs) <= Len(fx)
  /\ \A j \in 1..Len(cbs) : fx[i + j] = Fx("call", fx[i].ev, cbs[j], j)
  /\ i + Len(cbs) < Len(fx) => fx[i + Len(cbs) + 1].k # "call"

\* C9: on() appends, so the list of an event is in registration order; every
\* dispatch invokes the whole list of its event in that order, also past a
\* callback that throws; and the dispatch of an inbound frame leaves the
\* connection (sockets, handle, flags, counter, timers) as it was.
C9_DispatchOrderAndIsolation ==
  [][/\ last'.op = "on" =>
          listeners'[last'.arg] = listeners[last'.arg] \o <<last'.fx[1].cb>>
     /\ \A i \in 1..Len(last'.fx) :
          last'.fx[i].k = "emit" => InvokesAll(last'.fx, i, listeners[last'.fx[i].ev])
     /\ last'.op = "onmessage" =>
          UNCHANGED <<socks, ws, isConnecting, reconnectAttempts, pend, timers>>]_vars

\* C9 witness: a frame was dispatched to a throwing callback and then to the
\* callback registered after it.
C9_Witness ==
  /\ last.op = "onmessage"
  /\ \E i \in 1..(Len(last.fx) - 1) :
       /\ last.fx[i].k = "call" /\ last.fx[i].cb = "cbThrow"
       /\ last.fx[i + 1].k = "call" /\ last.fx[i + 1].cb = "cbA"
       /\ last.fx[i + 1].ev = last.fx[i].ev

SubscribedOnlyTo(cb, T) ==
  /\ cb \in Range(listeners[T])
  /\ \A e \in EventNames \ {T} : cb \notin Range(listeners[e])

FrameEmitsInOrder ==
  (last.op = "onmessage" /\ last.ok) =>
    LET evs == EmittedEvents(last.fx) IN
    /\ Len(evs) = IF last.arg = "" THEN 1 ELSE 2
    /\ evs[1].ev = "message"
    /\ last.arg # "" => evs[2].ev = last.arg

\* C10 as stated: every parsed frame is emitted under `message` first and
\* then under its type, and a callback subscribed only to T is invoked for
\* no frame whose type is not T.
C10_Original ==
  /\ FrameEmitsInOrder
  /\ (last.op = "onmessage" /\ last.ok) =>
       \A i \in 1..Len(last.fx) : \A T \in EventNames :
         (last.fx[i].k = "call" /\ SubscribedOnlyTo(last.fx[i].cb, T))
           => last.arg = T

\* C10 amended: ... a callback subscribed only to an event name T other than
\* the generic `message` is invoked for no frame whose type is not T (the
\* callbacks of `message` are invoked for every parsed frame).
C10_TypedDispatch ==
  /\ FrameEmitsInOrder
  /\ (last.op = "onmessage" /\ last.ok) =>
       \A i \in 1..Len(last.fx) : \A T \in EventNames \ {"message"} :
         (last.fx[i].k = "call" /\ SubscribedOnlyTo(last.fx[i].cb, T))
           => last.arg = T

\* C10 witness: a frame of type webrtc_offer was dispatched to a callback
\* subscribed to `message` only and then to one subscribed to webrtc_offer only.
C10_Witness ==
  /\ last.op = "onmessage" /\ last.arg = "webrtc_offer"
  /\ \E i, j \in 1..Len(last.fx) :
       /\ i < j
       /\ last.fx[i].k = "call" /\ SubscribedOnlyTo(last.fx[i].cb, "message")
       /\ last.fx[j].k = "call" /\ SubscribedOnlyTo(last.fx[j].cb, "webrtc_offer")

----------------------------------------------------------------------------
(* Properties of signaling *)

Entry(p) == pcs[peersRef[p]]

\* C3: an inbound offer from a participant whose entry is in a signaling
\* state other than stable (have-local-offer among them) is dropped: the
\* handler reports nothing done, sends nothing, queues no operation (so no
\* remote description is applied and no answer follows), and leaves the
\* connections and the registry as they were.
C3_GlareOfferDropped ==
  [][(/\ last'.op = "handleOffer"
      /\ peersRef[last'.arg] # 0
      /\ Entry(last'.arg).sig # "stable")
       => /\ ~last'.ok /\ last'.fx = <<>>
          /\ UNCHANGED <<pcs, peersRef, tasks, sent>>]_vars

\* C3 witness: an offer from a participant was dropped while the local
\* stream was held and the participant's entry was in have-local-offer.
C3_Witness ==
  /\ last.op = "handleOffer" /\ ~last.ok
  /\ comp.localStreamRef # 0
  /\ peersRef[last.arg] # 0
  /\ Entry(last.arg).sig = "have-local-offer"

Listed == Range(hist.list)

ThreeRemoteListed ==
  /\ hist.lists = 1
  /\ Len(hist.list) = 3 /\ Cardinality(Listed) = 3 /\ Self \notin Listed

OffersSentTo(S) ==
  \A p \in Peers : sent["webrtc_offer", p] = IF p \in S THEN 1 ELSE 0

\* C4: with the local stream held and no entry in the registry, once a
\* participants list naming three distinct remote participants has arrived,
\* never more than one offer is sent to a listed participant and never one
\* to anybody else, and eventually exactly one has been sent to each of the
\* three.
C4_ThreeOffers ==
  /\ [](ThreeRemoteListed =>
          \A p \in Peers : sent["webrtc_offer", p] <= IF p \in Listed THEN 1 ELSE 0)
  /\ ThreeRemoteListed ~> OffersSentTo(Listed)

\* C4 witness: three participants were listed, each has been sent one
\* offer, and a participant who was not listed has been sent none.
C4_Witness ==
  /\ ThreeRemoteListed
  /\ OffersSentTo(Listed)
  /\ Peers \ Listed # {}

IsOfferTo(l, p) ==
  /\ l.op = "resume" /\ l.arg = p
  /\ Len(l.fx) = 2
  /\ l.fx[1].ev = "createOfferForUser"
  /\ l.fx[2].k = "tx" /\ l.fx[2].ev = "webrtc_offer" /\ l.fx[2].cb = p

IsAnswerAppliedFor(l, p) ==
  /\ l.op = "resume" /\ l.arg = p
  /\ l.fx[1].ev = "handleAnswer"

\* C7: with the channel open on room g1 and the local stream held, once a
\* participants list naming u2 has arrived, exactly one offer is sent to u2,
\* on the socket of g1, and sending it leaves u2's entry in have-local-offer;
\* an answer from u2 that then arrives is applied, which moves that entry
\* from have-local-offer to stable.
C7_OfferThenAnswer ==
  /\ [](sent["webrtc_offer", "u2"] <= 1)
  /\ (hist.lists = 1 /\ "u2" \in Listed) ~> (sent["webrtc_offer", "u2"] = 1)
  /\ [][IsOfferTo(last', "u2") =>
          /\ sent["webrtc_offer", "u2"] = 0 /\ sent'["webrtc_offer", "u2"] = 1
          /\ socks[last'.fx[2].n].room = "g1"
          /\ peersRef'["u2"] # 0 /\ pcs'[peersRef'["u2"]].sig = "have-local-offer"]_vars
  /\ [][IsAnswerAppliedFor(last', "u2") =>
          /\ last'.ok
          /\ peersRef'["u2"] = peersRef["u2"] /\ peersRef["u2"] # 0
          /\ Entry("u2").sig = "have-local-offer"
          /\ pcs'[peersRef["u2"]].sig = "stable"]_vars
  /\ (last.op = "handleAnswer" /\ last.arg = "u2" /\ last.ok)
       ~> (peersRef["u2"] # 0 /\ Entry("u2").sig = "stable")

\* C7 witness: the one offer to u2 was sent, u2's answer arrived and was
\* applied, and u2's entry is stable.
C7_Witness ==
  /\ hist.list = <<"u2">>
  /\ sent["webrtc_offer", "u2"] = 1
  /\ IsAnswerAppliedFor(last, "u2") /\ last.ok
  /\ peersRef["u2"] # 0 /\ Entry("u2").sig = "stable"

----------------------------------------------------------------------------
(* Properties of the session controller *)

\* C15 (as stated): a peer connection that was created and is no longer in
\* the registry has been closed.
C15_Original ==
  \A k \in 1..Len(pcs) : ~InRegistry(k) => pcs[k].sig = "closed"

HasStream(ss, p) == IndexOf(ss, p) > 0

OthersUnchanged(P) ==
  \A Q \in Peers \ {P} :
    /\ peersRef'[Q] = peersRef[Q]
    /\ HasStream(remoteStreams', Q) <=> HasStream(remoteStreams, Q)

ReachesState(k, st) == pcs[k].conn # st /\ pcs'[k].conn = st

\* C16 (as stated): when a connection of participant P reaches `failed`,
\* `disconnected` or `closed`, P has no entry and no stream record afterwards
\* and the entries and stream records of every other participant are as
\* before.
C16_Original ==
  [][\A k \in 1..Len(pcs) :
       (\E st \in {"failed", "disconnected", "closed"} : ReachesState(k, st)) =>
         /\ peersRef'[pcs[k].user] = 0
         /\ ~HasStream(remoteStreams', pcs[k].user)
         /\ OthersUnchanged(pcs[k].user)]_vars

\* C16: when a connection of participant P reaches `failed` or
\* `disconnected`, P has no entry and no stream record afterwards and the
\* entries and stream records of every other participant, and their
\* connections, are as before; a connection reaches `closed` only in
\* teardown, which leaves no entry and no stream record at all.
C16_IsolatedFailure ==
  [][\A k \in 1..Len(pcs) :
       /\ (ReachesState(k, "failed") \/ ReachesState(k, "disconnected")) =>
            /\ peersRef'[pcs[k].user] = 0
            /\ ~HasStream(remoteStreams', pcs[k].user)
            /\ OthersUnchanged(pcs[k].user)
            /\ \A j \in 1..Len(pcs) : j # k => pcs'[j] = pcs[j]
       /\ ReachesState(k, "closed") =>
            /\ last'.op = "handleEndCall"
            /\ \A p \in Peers : peersRef'[p] = 0
            /\ remoteStreams' = <<>>]_vars

\* C16 witness: the connection of u2 has just been reported disconnected;
\* u2 had an entry and a stream record and has neither now, u3 has both.
C16_Witness ==
  /\ last.op = "onconnectionstatechange" /\ last.arg = "u2"
  /\ last.fx[1].ev = "disconnected" /\ last.fx[1].cb = "on" /\ last.fx[1].n > 0
  /\ peersRef["u2"] = 0 /\ ~HasStream(remoteStreams, "u2")
  /\ peersRef["u3"] # 0 /\ HasStream(remoteStreams, "u3")
  /\ pcs[peersRef["u3"]].conn = "connected"

SendsDescription(fx) ==
  \E n \in 1..Len(fx) : fx[n].k = "tx" /\ fx[n].ev \in {"webrtc_offer", "webrtc_answer"}

\* C17 (as stated): a registry entry exists only while the component holds
\* a local stream; and a peer connection is created (which is when the local
\* tracks are attached), and an offer or an answer is sent, only by a step
\* taken while the component holds a local stream.
C17_Original ==
  /\ [](\A p \in Peers : peersRef[p] # 0 => comp.localStreamRef # 0)
  /\ [][Len(pcs') > Len(pcs) => comp.localStreamRef # 0]_vars
  /\ [][SendsDescription(last'.fx) => comp.localStreamRef # 0]_vars

\* The class the specification gives to each cause of a failed acquisition.
ExpectedClass(name) ==
  IF name \in {"NotAllowedError", "PermissionDeniedError"} THEN "permission-denied"
  ELSE IF name \in {"NotFoundError", "DevicesNotFoundError"} THEN "device-not-found"
  ELSE IF name \in {"NotReadableError", "TrackStartError"} THEN "device-in-use"
  ELSE IF name \in {"OverconstrainedError", "ConstraintNotSatisfiedError"}
       THEN "constraint-error"
  ELSE "unknown"

\* C18: a failed acquisition leaves exactly one of the five error classes,
\* the one of its cause, with the session in the non-granted error state
\* `denied` (error shown, no grant); in that state the retry runs the same
\* acquisition routine (status `requesting`, error cleared, one more
\* getUserMedia request); and every acquisition that succeeds, retried ones
\* included, leaves the session granted with a local stream and no error.
C18_FailureClassifiedAndRetryable ==
  /\ [][last'.op = "mediaFailed" =>
          /\ comp'.permissionError = ExpectedClass(last'.arg)
          /\ comp'.permissionError \in ErrorClasses
          /\ comp'.permissionStatus = "denied" /\ comp'.error]_vars
  /\ [][last'.op = "retryPermissions" =>
          /\ comp.permissionStatus = "denied" /\ comp.error
          /\ comp' = requestMediaAccess(comp)
          /\ comp'.permissionStatus = "requesting" /\ ~comp'.error
          /\ mediaReqs' = mediaReqs + 1]_vars
  /\ [][last'.op = "mediaGranted" =>
          /\ comp'.permissionStatus = "granted" /\ ~comp'.error
          /\ comp'.localStreamRef # 0
          /\ ~streams'[comp'.localStreamRef].stopped]_vars

\* C18 witness: the acquisition has failed with the device in use, the user
\* has retried, and the retried acquisition has just succeeded.
C18_Witness ==
  /\ last.op = "mediaGranted" /\ last.arg = "device-in-use"
  /\ Len(streams) = 1 /\ mediaReqs = 0
  /\ comp.permissionStatus = "granted" /\ comp.localStreamRef = 1

Transmits(fx, type) == Len(SelectSeq(fx, LAMBDA e : e.k = "tx" /\ e.ev = type))

AcceptsOrDeclines == last'.op \in {"handleAcceptCall", "handleDeclineCall"}

NothingPending ==
  AcceptsOrDeclines /\ chat.incomingCall = NoCall =>
    /\ last'.fx = <<>>
    /\ UNCHANGED <<chat, wsvars, callvars>>

\* C19 (as stated): with a pending incoming call, accepting transmits one
\* call_accept, routes to the call page with the announced call type and
\* clears the pending call; declining transmits one call_decline and clears
\* the pending call; with none pending, both transmit nothing and change
\* nothing.
C19_Original ==
  [][/\ (last'.op = "handleAcceptCall" /\ chat.incomingCall # NoCall) =>
          /\ Len(last'.fx) = 1 /\ Transmits(last'.fx, "call_accept") = 1
          /\ chat'.route = [page |-> "call", type |-> chat.incomingCall.call_type]
          /\ chat'.incomingCall = NoCall
     /\ (last'.op = "handleDeclineCall" /\ chat.incomingCall # NoCall) =>
          /\ Len(last'.fx) = 1 /\ Transmits(last'.fx, "call_decline") = 1
          /\ chat'.route = chat.route
          /\ chat'.incomingCall = NoCall
     /\ NothingPending]_vars

\* C19: as stated, except that the notification is transmitted (once) when
\* the channel is open and not at all when it is not; the routing and the
\* clearing of the pending call happen either way.
C19_AcceptDecline ==
  [][/\ (last'.op = "handleAcceptCall" /\ chat.incomingCall # NoCall) =>
          /\ Len(last'.fx) = Transmits(last'.fx, "call_accept")
          /\ Transmits(last'.fx, "call_accept") = (IF SendAllowed THEN 1 ELSE 0)
          /\ chat'.route = [page |-> "call", type |-> chat.incomingCall.call_type]
          /\ chat'.incomingCall = NoCall
     /\ (last'.op = "handleDeclineCall" /\ chat.incomingCall # NoCall) =>
          /\ Len(last'.fx) = Transmits(last'.fx, "call_decline")
          /\ Transmits(last'.fx, "call_decline") = (IF SendAllowed THEN 1 ELSE 0)
          /\ chat'.route = chat.route
          /\ chat'.incomingCall = NoCall
     /\ NothingPending]_vars

\* C19 witness: a video call announced by u2 has just been accepted on an
\* open channel: one call_accept transmitted, the route is the video call
\* page, nothing is pending.
C19_Witness ==
  /\ last.op = "handleAcceptCall" /\ last.arg = "u2"
  /\ Transmits(last.fx, "call_accept") = 1
  /\ chat.route = [page |-> "call", type |-> "video"]
  /\ chat.incomingCall = NoCall

OfferGuards(P) ==
  /\ comp.localStreamRef # 0
  /\ P # Self
  /\ \/ peersRef[P] = 0
     \/ /\ pcs[peersRef[P]].sig = "stable"
        /\ pcs[peersRef[P]].conn # "connected"

\* createOfferForUser(P) goes on to createOffer in this step.
OfferStarted ==
  /\ last'.op = "createOfferForUser"
  /\ Len(tasks') = Len(tasks) + 1

\* createOfferForUser has the offer and has set it as the local description
\* of connection k in this step.
OfferCreated(k) ==
  /\ last'.op = "resume" /\ last'.ok
  /\ last'.fx[1] = Fx("await", "createOfferForUser", "setLocalDescription", k)

OfferMessages(fx, P) ==
  Len(SelectSeq(fx, LAMBDA e : e = Fx("tx", "webrtc_offer", P, ws) /\ ws # 0
                                /\ socks[ws].room = groupId))

OfferCreatedOnlyWhenAllowed ==
  /\ OfferStarted => OfferGuards(last'.arg)
  /\ last'.op = "createOfferForUser" /\ ~OfferGuards(last'.arg) =>
       UNCHANGED <<pcs, peersRef, tasks>> /\ last'.fx = <<>>
  /\ last'.op \in {"user_joined", "call_participant_ready"} /\ last'.arg = Self =>
       UNCHANGED offerTimers /\ last'.fx = <<>>

C5_Original ==
  (/\ last.op = "toggleMute" /\ last.ok
   /\ last.fx[2].ev # ""
   /\ last.arg = "on" /\ last.fx[2].cb = "on")
    => /\ last.fx[1].cb = last.fx[2].ev
       /\ last.fx[1].n = 1 /\ last.fx[2].n = 1

\* C6 as stated: the step that ends the call (handleEndCall, or the unmount
\* with its cleanup) leaves the registry empty and every local stream
\* acquired during the call stopped, and does not touch the connection of
\* the transport channel.
C6_Original ==
  [][last'.op \in {"handleEndCall", "unmount"} =>
       /\ \A p \in Peers : peersRef'[p] = 0
       /\ \A i \in 1..Len(streams') : streams'[i].stopped
       /\ UNCHANGED <<socks, ws, isConnecting, reconnectAttempts, pend, timers>>]_vars

----------------------------------------------------------------------------
(* Properties of offer creation under repeated presence signals *)

\* The createOfferForUser calls for P that are past their guards and have
\* not yet sent their offer.
OffersInCreation(P) ==
  {i \in 1..Len(tasks) : tasks[i].h = "createOfferForUser" /\ tasks[i].user = P}

\* C21 (as stated): repeated presence signals for P do not give competing
\* offers: at most one createOfferForUser(P) is between its guards and its
\* send at any time, and an offer for P is sent only from an entry that was
\* stable, never on top of an offer that waits for its answer.
C21_Original ==
  /\ [](\A P \in Peers : Cardinality(OffersInCreation(P)) <= 1)
  /\ [][\A k \in 1..Len(pcs) : OfferCreated(k) => pcs[k].sig = "stable"]_vars

----------------------------------------------------------------------------
(* Properties of the inbound signaling handlers *)

\* This step resumes handler h after the awaited operation named step.
Resumed(h, step) ==
  last'.op = "resume" /\ last'.fx[1].ev = h /\ last'.fx[1].cb = step

\* C22 (as stated): during a call (local stream held, call not ended), an
\* offer from P that finds P's entry absent or stable is taken up with an
\* entry for P in the registry, and as long as the connection is P's entry
\* each await of the handler resumes successfully and leaves it so: after
\* setRemoteDescription the remote description is applied, and after
\* setLocalDescription the entry is stable and one webrtc_answer addressed
\* to P has been transmitted.
C22_Original ==
  [][/\ (/\ last'.op = "handleOffer" /\ comp.localStreamRef # 0
         /\ (peersRef[last'.arg] = 0 \/ Entry(last'.arg).sig = "stable"))
          => last'.ok /\ peersRef'[last'.arg] # 0
     /\ \A step \in {"setRemoteDescription", "createAnswer", "setLocalDescription"} :
          (/\ Resumed("handleOffer", step) /\ comp.mounted = "yes"
           /\ peersRef[last'.arg] = last'.fx[1].n)
            => /\ last'.ok
               /\ peersRef'[last'.arg] = last'.fx[1].n
               /\ step = "setRemoteDescription" => pcs'[last'.fx[1].n].remote
               /\ step = "setLocalDescription" =>
                    /\ pcs'[last'.fx[1].n].sig = "stable"
                    /\ Len(last'.fx) = 2
                    /\ last'.fx[2] = Fx("tx", "webrtc_answer", last'.arg, ws)]_vars

\* C23 (as stated): an answer from P is applied only to P's entry in
\* have-local-offer; an answer that finds no entry or another signaling
\* state, when it arrives or when its setRemoteDescription is reached, is
\* dropped: nothing is sent, and no entry is created or removed.
C23_Original ==
  [][/\ (last'.op = "handleAnswer" /\ ~HandleAnswerProceeds(last'.arg))
          => /\ ~last'.ok /\ last'.fx = <<>>
             /\ UNCHANGED <<pcs, peersRef, tasks, sent>>
     /\ Resumed("handleAnswer", "setRemoteDescription") =>
          /\ last'.ok => /\ pcs[last'.fx[1].n].sig = "have-local-offer"
                         /\ pcs[last'.fx[1].n].user = last'.arg
          /\ ~last'.ok => /\ Len(last'.fx) = 1
                          /\ UNCHANGED <<pcs, peersRef, sent>>]_vars

\* C24: handling an ICE candidate from P changes neither the registry nor
\* any connection: on arrival nothing but the suspended handler is added,
\* and that only when P has an entry; when addIceCandidate settles, accepted
\* or rejected, the registry and every signaling state are as before and
\* nothing is sent.
C24_CandidateLeavesRegistry ==
  [][/\ last'.op = "handleIceCandidate" =>
          /\ UNCHANGED <<pcs, peersRef, sent>> /\ last'.fx = <<>>
          /\ peersRef[last'.arg] = 0 => UNCHANGED tasks /\ ~last'.ok
     /\ Resumed("handleIceCandidate", "addIceCandidate") =>
          /\ UNCHANGED <<peersRef, sent>> /\ Len(last'.fx) = 1
          /\ Len(pcs') = Len(pcs)
          /\ \A k \in 1..Len(pcs) : pcs'[k].sig = pcs[k].sig]_vars

\* C24 witness: addIceCandidate on u2's connection has just been rejected
\* and u2's entry is in the registry, on that connection.
C24_Witness ==
  /\ last.op = "resume" /\ ~last.ok /\ last.arg = "u2"
  /\ last.fx[1].ev = "handleIceCandidate"
  /\ peersRef["u2"] = last.fx[1].n
  /\ Entry("u2").sig # "closed"

----------------------------------------------------------------------------
(* Properties of the presence records *)

MuteValue(fx) == IF fx[1].ev = "on" THEN "muted" ELSE "unmuted"

\* C25 (as stated): a mute-status broadcast from P other than this user
\* leaves P's presence record with the broadcast value and the records of
\* the others as they were; one from this user changes no record; neither
\* changes the registry or a connection.
C25_Original ==
  [][last'.op = MuteStatus =>
       /\ UNCHANGED <<pcs, peersRef, tasks>>
       /\ \A Q \in Users \ {last'.arg} : participants'[Q] = participants[Q]
       /\ participants'[last'.arg] = IF last'.arg = Self THEN participants[Self]
                                     ELSE MuteValue(last'.fx)]_vars

----------------------------------------------------------------------------
(* Properties of the local media toggles *)

\* C26 (as stated): after a toggleMute() or toggleVideo() that found the
\* local stream, its audio track is enabled exactly when isMuted is false
\* and its video track, if it has one, exactly when isVideoOff is false; and
\* the mute-status broadcast a toggleMute() transmits carries the new
\* isMuted.
C26_Original ==
  (last.op \in {"toggleMute", "toggleVideo"} /\ last.ok) =>
    /\ streams[comp.localStream].audio = ~comp.isMuted
    /\ streams[comp.localStream].video \in {"none", B(~comp.isVideoOff)}
    /\ \A n \in 1..Len(last.fx) :
         last.fx[n].k = "tx" => last.fx[n].cb = B(comp.isMuted)

RenegotiationMessages == {"webrtc_offer", "webrtc_answer", "webrtc_ice_candidate"}

\* C27: toggleMute() and toggleVideo() leave the registry, every peer
\* connection, the suspended signaling handlers and the offer timers as they
\* were and transmit no offer, answer or candidate (toggleVideo transmits
\* nothing at all); without a local stream they change no flag and no track
\* and transmit nothing.
C27_NoRenegotiation ==
  [][last'.op \in {"toggleMute", "toggleVideo"} =>
       /\ UNCHANGED <<pcs, peersRef, tasks, offerTimers, remoteStreams, sent>>
       /\ \A n \in 1..Len(last'.fx) :
            last'.fx[n].k = "tx" => last'.fx[n].ev \notin RenegotiationMessages
       /\ last'.op = "toggleVideo" => last'.fx = <<>>
       /\ comp.localStream = 0 => UNCHANGED <<comp, streams>> /\ last'.fx = <<>>]_vars

\* C27 witness: toggleMute() has just run on the local stream and sent its
\* broadcast while u2's connection is in the middle of a negotiation.
C27_Witness ==
  /\ last.op = "toggleMute" /\ last.ok /\ Len(last.fx) = 3
  /\ peersRef["u2"] # 0 /\ Entry("u2").sig = "have-remote-offer"
  /\ Len(tasks) > 0

----------------------------------------------------------------------------
(* Properties of the listener registry *)

\* C28: the listener lists change only in on(), off() and disconnect(), so
\* not when a socket closes, a reconnect is scheduled or made, or a socket
\* opens; a frame arriving on any open socket, the one of a reconnect
\* included, is dispatched to the whole list of each event it is emitted
\* under; off() removes one callback of its event when it finds it and
\* changes nothing when it does not; disconnect() empties the lists.
C28_ListenersSurviveReconnects ==
  [][/\ last'.op \notin {"on", "off", "disconnect"} => UNCHANGED listeners
     /\ last'.op \in {"on", "off"} =>
          \A e \in EventNames \ {last'.arg} : listeners'[e] = listeners[e]
     /\ last'.op = "off" =>
          IF last'.ok
          THEN \E i \in 1..Len(listeners[last'.arg]) :
                 listeners'[last'.arg] = RemoveAt(listeners[last'.arg], i)
          ELSE UNCHANGED listeners
     /\ last'.op = "disconnect" => \A e \in EventNames : listeners'[e] = <<>>
     /\ (last'.op = "onmessage" /\ last'.ok) =>
          \A i \in 1..Len(last'.fx) :
            last'.fx[i].k = "emit" =>
              InvokesAll(last'.fx, i, listeners[last'.fx[i].ev])]_vars

\* C28 witness: the first socket has closed, the socket of the reconnect is
\* open and is the only one that is, and a frame has just been dispatched
\* to callback cbA.
C28_Witness ==
  /\ Len(socks) = 2 /\ ReadyState(1) = "CLOSED" /\ ReadyState(2) = "OPEN" /\ ws = 2
  /\ last.op = "onmessage"
  /\ \E i \in 1..Len(last.fx) : last.fx[i].k = "call" /\ last.fx[i].cb = "cbA"

\* The number of times the dispatch fx invoked the callback at position j of
\* the list of event e.
Invocations(fx, e, j) ==
  Cardinality({i \in 1..Len(fx) : fx[i] = Fx("call", e, listeners[e][j], j)})

\* C29 (as stated): the dispatch of a parsed frame invokes each registered
\* callback at most once, and exactly once each callback registered on the
\* frame's type; so a callback registered on `message` is invoked once for
\* a frame of type `message`.
C29_Original ==
  (last.op = "onmessage" /\ last.ok) =>
    \A e \in EventNames : \A j \in 1..Len(listeners[e]) :
      /\ Invocations(last.fx, e, j) <= 1
      /\ e = last.arg => Invocations(last.fx, e, j) = 1

----------------------------------------------------------------------------
(* Two participants negotiating with each other *)

\* The fields of pair[X] are X's side of its negotiation with Other(X): told,
\* a presence signal of the other has been handled; timer, a
\* setTimeout(() => createOfferForUser(other)) is pending; entry, peersRef has
\* the other; pc, the signaling state of the connection X made for the other
\* ("none" before it is made); remote, the kind of the remote description
\* applied last; tasks, X's handlers suspended at an await, in the order the
\* connection settles them; inbox, the frames relayed to X and not yet
\* handled.  Both participants are in the call with a local stream and an open
\* channel.
Side(X, s) == [pair EXCEPT ![X] = s]

\* X handles the first presence signal of the other participant
\* (user_joined, call_participant_ready or call_participants_list) and sets
\* the timer of its offer.
PairHears(X) ==
  /\ ~pair[X].told
  /\ pair' = Side(X, [pair[X] EXCEPT !.told = TRUE, !.timer = TRUE])
  /\ last' = Step("call_participant_ready", Other(X), TRUE,
                  <<Fx("timer", "createOfferForUser", Other(X), 0)>>)
  /\ UNCHANGED <<wsvars, hist, cap, chat, callvars>>

\* createOfferForUser goes on to create an offer: the entry is absent, or
\* stable and not connected.
PairOfferProceeds(s, connected) ==
  s.entry => s.pc = "stable" /\ ~connected

\* The timer of X fires: createOfferForUser(other) up to
\* `await peerConnection.createOffer(...)`.  The connection can have reached
\* "connected" only once it is stable with a remote description.
PairOfferTimerFire(X, connected) ==
  LET s == pair[X]
      proceeds == PairOfferProceeds(s, connected)
  IN /\ s.timer
     /\ connected => s.entry /\ s.pc = "stable" /\ s.remote # ""
     /\ s.entry \/ s.pc = "none"
     /\ pair' = Side(X, [s EXCEPT
                           !.timer = FALSE,
                           !.entry = @ \/ proceeds,
                           !.pc = IF s.entry THEN @ ELSE "stable",
                           !.tasks = IF proceeds
                                     THEN Append(@, Task("createOfferForUser", Other(X),
                                                         1, "createOffer"))
                                     ELSE @])
     /\ last' = Step("createOfferForUser", Other(X), proceeds, <<>>)
     /\ UNCHANGED <<wsvars, hist, cap, chat, callvars>>

\* The handler of a relayed frame goes past its checks: handleOffer when the
\* connection, made if the entry is absent, is stable; handleAnswer when
\* there is an entry in have-local-offer.
PairHandlerProceeds(s, frame) ==
  IF frame = "webrtc_offer"
  THEN HandleOfferProceeds(IF s.entry THEN s.pc ELSE "stable")
  ELSE s.entry /\ s.pc = "have-local-offer"

\* The first frame relayed to X is handled: handleOffer or handleAnswer up
\* to `await peerConnection.setRemoteDescription(...)`.
PairDeliver(X) ==
  LET s == pair[X]
      frame == Head(s.inbox)
      h == IF frame = "webrtc_offer" THEN "handleOffer" ELSE "handleAnswer"
      proceeds == PairHandlerProceeds(s, frame)
  IN /\ s.inbox # <<>>
     /\ s.entry \/ s.pc = "none" \/ frame # "webrtc_offer"
     /\ pair' = Side(X, [s EXCEPT
                           !.inbox = Tail(@),
                           !.entry = @ \/ frame = "webrtc_offer",
                           !.pc = IF s.entry \/ frame # "webrtc_offer" THEN @ ELSE "stable",
                           !.tasks = IF proceeds
                                     THEN Append(@, Task(h, Other(X), 1,
                                                         "setRemoteDescription"))
                                     ELSE @])
     /\ last' = Step(h, Other(X), proceeds, <<>>)
     /\ UNCHANGED <<wsvars, hist, cap, chat, callvars>>

\* The remote description a settled operation leaves applied.
RemoteAfter(t, remote) ==
  IF t.step # "setRemoteDescription" THEN remote
  ELSE IF t.h = "handleOffer" THEN "offer" ELSE "answer"

\* The operation the first suspended handler of X waits on settles, and the
\* handler runs to its next await or to its end; the message it sends at its
\* end is relayed to the other participant.
PairTaskStep(X) ==
  LET s == pair[X]
      t == Head(s.tasks)
      ok == OperationAccepted(t, s.pc, s.remote # "")
      more == ok /\ NextAwait(t) # ""
      sends == ok /\ SendsAfter(t) # ""
      mine == [s EXCEPT
                 !.pc = IF ok THEN SignalingAfter(t, @) ELSE @,
                 !.remote = IF ok THEN RemoteAfter(t, @) ELSE @,
                 !.entry = IF ok \/ ~CatchDeletes(t.h) THEN @ ELSE FALSE,
                 !.tasks = IF more
                           THEN Append(Tail(@), [t EXCEPT !.step = NextAwait(t)])
                           ELSE Tail(@)]
  IN /\ s.tasks # <<>>
     /\ pair' = [pair EXCEPT
                   ![X] = mine,
                   ![Other(X)].inbox = IF sends THEN Append(@, SendsAfter(t)) ELSE @]
     /\ last' = Step("resume", t.user, ok,
                     <<Fx("await", t.h, t.step, 1)>>
                       \o IF sends THEN <<Fx("tx", SendsAfter(t), t.user, 1)>> ELSE <<>>)
     /\ UNCHANGED <<wsvars, hist, cap, chat, callvars>>

InitGlare ==
  /\ InCall
  /\ pair = Strangers
  /\ cap = [socks |-> 1, pcs |-> 0, tasks |-> 0, sent |-> 0, trace |-> FALSE]

NextGlare ==
  \/ \E X \in PairUsers : PairHears(X)
  \/ \E X \in PairUsers, connected \in BOOLEAN : PairOfferTimerFire(X, connected)
  \/ \E X \in PairUsers : PairDeliver(X)
  \/ \E X \in PairUsers : PairTaskStep(X)

\* Timers fire, relayed frames are handled and awaited operations settle.
FairGlare ==
  /\ WF_vars(\E X \in PairUsers, connected \in BOOLEAN : PairOfferTimerFire(X, connected))
  /\ WF_vars(\E X \in PairUsers : PairDeliver(X))
  /\ WF_vars(\E X \in PairUsers : PairTaskStep(X))

SpecGlare == InitGlare /\ [][NextGlare]_vars /\ FairGlare

----------------------------------------------------------------------------
(* Properties of two participants offering to each other *)

\* Each participant has sent its offer before it has handled the offer of the
\* other.
Glare ==
  \A X \in PairUsers :
    /\ pair[X].entry /\ pair[X].pc = "have-local-offer"
    /\ pair[X].inbox = <<"webrtc_offer">>

\* One of the offers has been answered and both entries are stable again.
Negotiated ==
  /\ \A X \in PairUsers : pair[X].entry /\ pair[X].pc = "stable"
  /\ \E X \in PairUsers : pair[X].remote = "answer"

\* C30: when two participants each send an offer to the other before
\* receiving the offer of the other, the pair still eventually completes the
\* negotiation: one of the offers is answered and both entries return to
\* stable.
C30_Original == Glare ~> Negotiated

----------------------------------------------------------------------------
(* Properties of connection-state events of superseded connections *)

\* The connection whose state the step reports is not the entry of its
\* participant, who has a newer one.
Superseded(k) ==
  /\ pcs'[k].conn # pcs[k].conn
  /\ peersRef[pcs[k].user] # 0
  /\ peersRef[pcs[k].user] # k

\* C31: a connection-state event from a connection that is no longer the
\* entry of its participant (the entry was removed after an error and a newer
\* connection was created for the participant) removes neither the newer entry
\* nor the stream record of the participant.
C31_Original ==
  [][\A k \in 1..Len(pcs) :
       (last'.op = "onconnectionstatechange" /\ Superseded(k))
         => UNCHANGED <<peersRef, remoteStreams>>]_vars

----------------------------------------------------------------------------
(* Properties of the local media session after the end of the call *)

\* C32: once the call has ended, every local stream acquired during the call
\* is stopped and the registry is empty, also when an acquisition completes
\* after the end or a second acquisition was made while a stream was held.
C32_Original ==
  comp.mounted \in {"leaving", "ended"} =>
    /\ \A i \in 1..Len(streams) : streams[i].stopped
    /\ \A p \in Peers : peersRef[p] = 0

----------------------------------------------------------------------------
(* The transport channel when the user moves between rooms: the chat room  *)
(* of each group calls connect(groupId) when it comes on screen and never  *)
(* calls disconnect().                                                     *)

NextRooms ==
  \/ SetGetToken
  \/ \E g \in Rooms : Connect(g)
  \/ \E g \in Rooms : TokenResolve(g)
  \/ \E s \in 1..Len(socks) : SockOpen(s)
  \/ \E s \in 1..Len(socks) : SockClose(s)
  \/ \E i \in 1..Len(timers) : TimerFire(i)

SpecRooms == Init /\ [][NextRooms]_vars

\* C33: once connect(r) has been called, an open channel is a channel to
\* room r, also when the call found the channel open or connecting to
\* another room.
C33_Original ==
  (last.op = "connect" /\ ws # 0 /\ ReadyState(ws) = "OPEN")
    => socks[ws].room = last.arg

----------------------------------------------------------------------------
(* Duplicate delivery of an offer: each participant's offer arrives, and   *)
(* arrives again while the handler of the first copy waits for its         *)
(* setRemoteDescription; the platform accepts every operation the          *)
(* signaling state allows.                                                 *)

\* The handleOffer calls for p suspended at an await.
OffersInHand(p) ==
  {i \in 1..Len(tasks) : tasks[i].h = "handleOffer" /\ tasks[i].user = p}

NextDuplicates ==
  \/ \E p \in PeerPair : /\ \A k \in 1..Len(pcs) : pcs[k].user # p
                         /\ RecvOffer(p)
  \/ \E p \in PeerPair : /\ Cardinality(OffersInHand(p)) = 1
                         /\ \A i \in OffersInHand(p) : tasks[i].step = "setRemoteDescription"
                         /\ RecvOffer(p)
  \/ \E i \in 1..Len(tasks) : TaskStep(i, TRUE)

SpecDuplicates == InitOffers /\ [][NextDuplicates]_vars

\* C34: an offer of P delivered twice, the second copy while the first is
\* still being processed and its remote description is not yet applied, gets
\* at most one answer to P.
C34_AtMostOneAnswer ==
  \A p \in PeerPair : sent["webrtc_answer", p] <= 1

\* Both copies of u2's offer were taken up, the handler of the first sent
\* the answer and the handler of the second has just ended in its catch.
C34_Witness ==
  /\ last.op = "resume" /\ ~last.ok /\ last.arg = "u2"
  /\ last.fx[1].ev = "handleOffer"
  /\ OffersInHand("u2") = {}
  /\ sent["webrtc_answer", "u2"] = 1

----------------------------------------------------------------------------
(* Dispatch to callbacks that unsubscribe: the listener list is the array  *)
(* emit() iterates over, and off() splices that same array.                *)

\* A callback that calls off(event, itself) when it is invoked.
OffsItself(cb) == cb = "cbOnce"

LifecycleEvents == {"connected", "disconnected", "error", "reconnect_failed"}

\* listeners.get(event).forEach(callback => ...) from index i on, over the
\* array as it is when each index is reached: the calls made, and the array
\* left behind.
RECURSIVE ForEachLive(_, _, _)
ForEachLive(ev, cbs, i) ==
  IF i > Len(cbs) THEN [fx |-> <<>>, cbs |-> cbs]
  ELSE LET after == IF OffsItself(cbs[i]) THEN Spliced(cbs, IndexOf(cbs, cbs[i])) ELSE cbs
           rest == IF CallbackThrows(cbs[i]) /\ ~ListenerErrorCaught
                   THEN [fx |-> <<>>, cbs |-> after]
                   ELSE ForEachLive(ev, after, i + 1)
       IN [fx |-> <<Fx("call", ev, cbs[i], i)>> \o rest.fx, cbs |-> rest.cbs]

\* emit(event, data) on the listener table ls: the effects, and the table
\* left behind.
EmitLive(ev, ls) ==
  LET r == ForEachLive(ev, ls[ev], 1)
  IN [fx |-> <<Fx("emit", ev, "", 0)>> \o r.fx, ls |-> [ls EXCEPT ![ev] = r.cbs]]

\* ws.onmessage, as SockMessage, with callbacks that may unsubscribe.
SockMessageLive(s, f) ==
  LET generic == EmitLive("message", listeners)
      typed == IF f # "" THEN EmitLive(f, generic.ls)
               ELSE [fx |-> <<>>, ls |-> generic.ls]
  IN /\ ReadyState(s) = "OPEN"
     /\ listeners' = IF f = Unparsable THEN listeners ELSE typed.ls
     /\ last' = Step("onmessage", f, f # Unparsable,
                     IF f = Unparsable THEN <<>> ELSE generic.fx \o typed.fx)
     /\ UNCHANGED <<socks, ws, isConnecting, reconnectAttempts, getToken, pend, timers,
                    hist, cap, chat, pair, callvars>>

NextListeners ==
  \/ \E ev \in {"message", "connected"}, cb \in {"cbA", "cbOnce"} : On(ev, cb)
  \/ \E ev \in {"message", "connected"}, cb \in {"cbA", "cbOnce"} : Off(ev, cb)
  \/ \E s \in 1..Len(socks), f \in Frames : SockMessageLive(s, f)

SpecListeners == InitToggles /\ [][NextListeners]_vars

\* C35: the listeners of connected, disconnected, error and reconnect_failed
\* are invoked only by the transport transition of that name: the dispatch
\* of an inbound frame invokes no listener of a lifecycle event, whatever the
\* type of the frame.
C35_Original ==
  [][last'.op = "onmessage" =>
       \A j \in 1..Len(last'.fx) :
         last'.fx[j].k = "call" => last'.fx[j].ev \notin LifecycleEvents]_vars

\* C36: every callback registered for an event when a dispatch of the event
\* begins is invoked exactly once in that dispatch, also when a callback calls
\* off() while the dispatch is running.
C36_Original ==
  [][last'.op = "onmessage" /\ last'.ok
       => InvokesAll(last'.fx, 1, listeners["message"])]_vars

----------------------------------------------------------------------------
(* Properties of the remote stream list *)

\* C37: the remote stream list holds at most one record per participant, and
\* every participant with a stream record has a registry entry: whenever the
\* entry is removed, also after an error of an offer or an answer, the stream
\* record is removed too.
C37_Original ==
  \A P \in Peers :
    /\ Cardinality({j \in 1..Len(remoteStreams) : remoteStreams[j] = P}) <= 1
    /\ HasStream(remoteStreams, P) => peersRef[P] # 0

----------------------------------------------------------------------------
(* A voice call while the transport channel closes and reconnects: offers  *)
(* are answered and media arrives on the sockets that are open.            *)

MaxReconnects == 1

InitReconnect ==
  /\ InCall
  /\ pair = Strangers
  /\ cap = [socks |-> 1 + MaxReconnects, pcs |-> MaxPCs, tasks |-> MaxTasks, sent |-> 0,
            trace |-> FALSE]

NextReconnect ==
  \/ \E p \in CallPeers : RecvOffer(p)
  \/ \E i \in 1..Len(tasks) : TaskStep(i, TRUE)
  \/ \E k \in 1..Len(pcs) : OnTrack(k)
  \/ \E s \in 1..Len(socks) : SockClose(s)
  \/ \E s \in 1..Len(socks) : SockFail(s)
  \/ \E i \in 1..Len(timers) : TimerFire(i)
  \/ \E g \in {groupId} : TokenResolve(g)
  \/ \E s \in 1..Len(socks) : SockOpen(s)

SpecReconnect == InitReconnect /\ [][NextReconnect]_vars

\* C38: a closure or a reconnection of the transport channel does not tear
\* down the call: the close event, the reconnect timer, the resolved token
\* and the open event leave the registry, every connection with its
\* signaling state, the remote streams and the local media as they were.
C38_CallSurvivesReconnect ==
  [][last'.op \in {"onclose", "timer", "token", "onopen"}
       => UNCHANGED <<peersRef, pcs, remoteStreams, streams, comp, tasks>>]_vars

\* The channel has just reopened on a second socket while u2 has an entry in
\* the middle of a negotiation and a stream record, and the local stream is
\* live.
C38_Witness ==
  /\ last.op = "onopen" /\ Len(socks) = 2 /\ ws = 2
  /\ peersRef["u2"] # 0 /\ Entry("u2").sig = "have-remote-offer"
  /\ HasStream(remoteStreams, "u2")
  /\ comp.localStreamRef # 0 /\ ~streams[comp.localStreamRef].stopped

----------------------------------------------------------------------------
(* Properties of frames that cannot be parsed *)

\* C39: an inbound frame that cannot be parsed emits no event and changes
\* nothing in the channel: the sockets, the handle, the flags, the attempt
\* counter, the timers and the listener registry are as before, the channel
\* is still open, and a parsed frame that comes next is dispatched to the
\* whole list of `message`.
C39_UnparsableFrameIgnored ==
  [][/\ (last'.op = "onmessage" /\ last'.arg = Unparsable) =>
          /\ ~last'.ok /\ last'.fx = <<>>
          /\ UNCHANGED wsvars
          /\ \E s \in 1..Len(socks') : socks'[s].rs = "OPEN"
     /\ (/\ last.op = "onmessage" /\ last.arg = Unparsable
         /\ last'.op = "onmessage" /\ last'.arg # Unparsable) =>
          /\ last'.ok
          /\ InvokesAll(last'.fx, 1, listeners["message"])]_vars

\* An unparsable frame has just arrived on the open channel, after a
\* reconnection, with a callback registered on `message`.
C39_Witness ==
  /\ last.op = "onmessage" /\ last.arg = Unparsable /\ last.fx = <<>>
  /\ listeners["message"] = <<"cbA">>
  /\ ws # 0 /\ ReadyState(ws) = "OPEN"
  /\ Len(socks) = 2

----------------------------------------------------------------------------
(* Properties of a failing token provider *)

\* C40: when the token provider fails during connect(), no socket is
\* created, no reconnect is scheduled, the attempt counter is unchanged and
\* the connecting flag is cleared, so that a connect() call that comes next
\* goes past the guard unless the channel is open.
C40_TokenFailure ==
  [][/\ (last'.op = "token" /\ ~last'.ok) =>
          /\ UNCHANGED <<socks, ws, timers, reconnectAttempts, listeners>>
          /\ ~isConnecting'
     /\ (/\ last.op = "token" /\ ~last.ok
         /\ last'.op = "connect"
         /\ ~(ws # 0 /\ ReadyState(ws) = "OPEN")) => last'.ok]_vars

\* The token provider has just failed in a connect() made by a reconnect
\* timer: the counter stands at 1, no socket is being opened and the flag is
\* clear.
C40_Witness ==
  /\ last.op = "token" /\ ~last.ok
  /\ reconnectAttempts = 1 /\ timers = <<>>
  /\ ~isConnecting
  /\ Len(socks) = 1 /\ ReadyState(1) = "CLOSED"

====
